---- MODULE Spec2Model ----
(***************************************************************************)
(* A state-machine model of the traffic detection system:                  *)
(*   - detection/line_counter.py   LineCounter                             *)
(*   - database/db_manager.py      DatabaseManager (store, sync, cleanup)  *)
(*   - database/firebase_sync.py   FirebaseSync.sync_detection             *)
(*   - camera/camera_manager.py    CameraManager (capture threads, queue)  *)
(*   - dashboard/app.py            TrafficDashboard.detection_loop         *)
(*   - detector.py                 TrafficDetectionService._process_frames *)
(*   - dashboard/app.py            plate de-duplication of detection_loop  *)
(* Each component has its own next-state relation and specification; the   *)
(* variables of the other components stay unchanged under it.              *)
(***************************************************************************)
EXTENDS Integers, Sequences, FiniteSets, TLC

VARIABLES
    line_counters,   \* source id -> LineCounter object
    rows,            \* table vehicle_detections of the local store
    daily_summaries, \* table daily_summaries of the local store
    remote,          \* records under 'detections' of the remote store
    now,             \* the wall clock, datetime.now()
    sd,              \* thread -> its save_detection call
    sync,            \* thread -> its sync_to_firebase call
    fs,              \* the force_sync_all call
    sync_lock,       \* DatabaseManager.sync_lock: its holder, or Free
    cameras,         \* CameraManager.cameras: camera id -> entry
    threads,         \* CameraManager.threads: camera id -> capture thread
    capt,            \* capture thread -> its state in _capture_frames
    rm,              \* the remove_camera call in progress
    published,       \* camera id -> the frame its source published last
    frame_no,        \* the frames read from the sources so far
    dl,              \* detection_loop: its position at a camera's queue
    gf,              \* the get_frame call in progress
    recent_plates,   \* TrafficDashboard.recent_plates: camera id -> entries
    plate_rows,      \* table plate_detections of the local store
    wall,            \* datetime.now() of the dashboard, in seconds
    svc,             \* _process_frames of the service: its place in a frame
    total_detections,\* TrafficDetectionService.total_detections
    uds,             \* thread -> its update_daily_summary call
    auto,            \* sync_worker of start_auto_sync: its place in the loop
    frame_queue,     \* TrafficDetectionService.frame_queue
    detection_running,\* TrafficDashboard.detection_running
    loops,           \* detection thread -> its place in detection_loop
    lastOp           \* the operation that produced the current state (history)

lcVars == <<line_counters>>
dbVars == <<rows, daily_summaries, remote, now, sd, sync, fs, sync_lock>>
camVars == <<cameras, threads, capt, rm, published, frame_no, dl, gf>>
plateVars == <<recent_plates, plate_rows, wall>>
svcVars == <<svc, total_detections>>
sumVars == <<uds>>
workerVars == <<auto>>
feedVars == <<frame_queue>>
ctlVars == <<detection_running, loops>>
nonLC == <<dbVars, camVars, plateVars, svcVars, sumVars, workerVars, feedVars, ctlVars>>
nonDB == <<lcVars, camVars, plateVars, svcVars, sumVars, workerVars, feedVars, ctlVars>>
nonCam == <<lcVars, dbVars, plateVars, svcVars, sumVars, workerVars, feedVars, ctlVars>>
nonPlate == <<lcVars, dbVars, camVars, svcVars, sumVars, workerVars, feedVars, ctlVars>>
vars == <<line_counters, rows, daily_summaries, remote, now, sd, sync, fs, sync_lock,
          cameras, threads, capt, rm, published, frame_no, dl, gf,
          recent_plates, plate_rows, wall, svc, total_detections, uds, auto,
          frame_queue, detection_running, loops, lastOp>>

(***************************************************************************)
(* Bounds of the model.                                                    *)
(***************************************************************************)
FrameH == 4         \* height in pixels of the frames handed to update()
MaxObjs == 1        \* tracked objects per update() call
MaxCounts == 3      \* update() is not explored past this many counted crossings
MaxId == 3          \* save_detection is not explored past this row id
MaxSaves == 3       \* nor past this many summary increments
MaxTime == 1        \* the clock stops here
MaxThreads == 2     \* capture threads started over a run
MaxFrames == 3      \* frames read from the sources over a run
MaxPlateRows == 3   \* plates are not explored past this many stored rows
MaxDetections == 2  \* detections per frame of the service
MaxLoops == 3       \* detection threads started over a run

(***************************************************************************)
(* LineCounter (detection/line_counter.py)                                 *)
(***************************************************************************)
NoTrack == "none"   \* obj.get('track_id') is None
NoPos == -1         \* Python None for a vertical position / a line row
Tracks == {"t1", "t2"}
Ys == 0 .. (FrameH - 1)

\* line_position=0.5, as the fraction LinePosNum / LinePosDen
LinePosNum == 1
LinePosDen == 2

\* self.class_map
class_map == [car |-> "Mobil", motorcycle |-> "Motor", bus |-> "Bus", truck |-> "Truk"]
MappedClasses == {"Mobil", "Motor", "Bus", "Truk"}
\* classes the tracked objects of the model carry: two of class_map and one
\* that class_map does not hold
ObjClasses == {"car", "bus", "person"}

\* the objects handed to update(): track id (or none), class, vertical center
\* (NoPos: the object has neither 'center' nor 'bbox')
TrackedObjects == [track_id : Tracks \cup {NoTrack}, class : ObjClasses, cy : Ys \cup {NoPos}]

\* the lists handed to update(): Tracker.update reports each track identity
\* at most once per call
ObjLists ==
    {objs \in UNION {[1..n -> TrackedObjects] : n \in 0..MaxObjs} :
        \A i, j \in DOMAIN objs :
            (i # j /\ objs[i].track_id # NoTrack) => objs[i].track_id # objs[j].track_id}

\* LineCounter.__init__; count_log and last_count model the [COUNT] lines
\* _check_crossing prints: how many were printed per track, and the last one.
NewLineCounter ==
    [line_y |-> NoPos,
     total_counts |-> [m \in MappedClasses |-> 0],
     crossed_tracks |-> {},
     track_positions |-> [t \in Tracks |-> NoPos],
     count_log |-> [t \in Tracks |-> 0],
     last_count |-> [dir |-> "none", class |-> "none", track |-> NoTrack]]

\* the downward test with a strict arrival: landing on the line row is no
\* crossing (mutant)
crossed_down_strict(prev_y, line_y, current_y) == prev_y < line_y /\ current_y > line_y

crossed_down(prev_y, line_y, current_y) == prev_y < line_y /\ current_y >= line_y
crossed_up(prev_y, line_y, current_y) == prev_y > line_y /\ current_y <= line_y

\* _check_crossing without the test of crossed_tracks (mutant)
CheckCrossingNoGuard(c, track_id, current_y, vehicle_class) ==
    IF vehicle_class \notin DOMAIN class_map
    THEN c
    ELSE LET prev_y == c.track_positions[track_id]
             c1 == [c EXCEPT !.track_positions[track_id] = current_y]
         IN  IF prev_y # NoPos /\ c.line_y # NoPos
                /\ (crossed_down(prev_y, c.line_y, current_y)
                    \/ crossed_up(prev_y, c.line_y, current_y))
             THEN [c1 EXCEPT
                     !.total_counts[class_map[vehicle_class]] = @ + 1,
                     !.crossed_tracks = @ \cup {track_id},
                     !.count_log[track_id] = @ + 1]
             ELSE c1

\* _check_crossing reading a missing previous position as row 0 (mutant)
CheckCrossingDefaultPrev(c, track_id, current_y, vehicle_class) ==
    IF track_id \in c.crossed_tracks \/ vehicle_class \notin DOMAIN class_map
    THEN c
    ELSE LET prev_y == IF c.track_positions[track_id] = NoPos
                       THEN 0 ELSE c.track_positions[track_id]
             c1 == [c EXCEPT !.track_positions[track_id] = current_y]
         IN  IF c.line_y # NoPos
                /\ (crossed_down(prev_y, c.line_y, current_y)
                    \/ crossed_up(prev_y, c.line_y, current_y))
             THEN [c1 EXCEPT
                     !.total_counts[class_map[vehicle_class]] = @ + 1,
                     !.crossed_tracks = @ \cup {track_id},
                     !.count_log[track_id] = @ + 1]
             ELSE c1

\* _check_crossing counting a crossing without recording the track in
\* crossed_tracks (mutant)
CheckCrossingNoAdd(c, track_id, current_y, vehicle_class) ==
    IF track_id \in c.crossed_tracks \/ vehicle_class \notin DOMAIN class_map
    THEN c
    ELSE LET prev_y == c.track_positions[track_id]
             c1 == [c EXCEPT !.track_positions[track_id] = current_y]
         IN  IF prev_y # NoPos /\ c.line_y # NoPos
                /\ (crossed_down(prev_y, c.line_y, current_y)
                    \/ crossed_up(prev_y, c.line_y, current_y))
             THEN [c1 EXCEPT
                     !.total_counts[class_map[vehicle_class]] = @ + 1,
                     !.count_log[track_id] = @ + 1]
             ELSE c1

\* LineCounter._check_crossing: the counter after the call
CheckCrossing(c, track_id, current_y, vehicle_class) ==
    IF track_id \in c.crossed_tracks \/ vehicle_class \notin DOMAIN class_map
    THEN c
    ELSE LET prev_y == c.track_positions[track_id]
             c1 == [c EXCEPT !.track_positions[track_id] = current_y]
         IN  IF prev_y # NoPos /\ c.line_y # NoPos
                /\ (crossed_down(prev_y, c.line_y, current_y)
                    \/ crossed_up(prev_y, c.line_y, current_y))
             THEN LET mapped_class == class_map[vehicle_class]
                  IN  [c1 EXCEPT
                         !.total_counts[mapped_class] = @ + 1,
                         !.crossed_tracks = @ \cup {track_id},
                         !.count_log[track_id] = @ + 1,
                         !.last_count =
                             [dir |-> IF crossed_down(prev_y, c.line_y, current_y)
                                      THEN "down" ELSE "up",
                              class |-> mapped_class,
                              track |-> track_id]]
             ELSE c1

\* the loop of LineCounter.update over tracked_objects[i..]
RECURSIVE ProcessObjects(_, _, _)
ProcessObjects(c, objs, i) ==
    IF i > Len(objs) THEN c
    ELSE LET obj == objs[i]
         IN  IF obj.track_id = NoTrack \/ obj.cy = NoPos
             THEN ProcessObjects(c, objs, i + 1)
             ELSE ProcessObjects(CheckCrossing(c, obj.track_id, obj.cy, obj.class),
                                 objs, i + 1)

\* LineCounter.update(tracked_objects, frame), frame of height h
LineCounterUpdate(c, objs, h) ==
    LET c0 == IF c.line_y = NoPos
              THEN [c EXCEPT !.line_y = (h * LinePosNum) \div LinePosDen]
              ELSE c
    IN  ProcessObjects(c0, objs, 1)

RECURSIVE SumOver(_, _)
SumOver(f, S) ==
    IF S = {} THEN 0
    ELSE LET x == CHOOSE y \in S : TRUE IN f[x] + SumOver(f, S \ {x})

\* LineCounter.get_counts, summed over the classes
TotalCount(c) == SumOver(c.total_counts, MappedClasses)

\* the sources with a LineCounter: the dashboard's camera and the service's
DashboardSources == {"cam1"}
ServiceSource == "main_camera"
Sources == DashboardSources \cup {ServiceSource}

InitLC == line_counters = [s \in Sources |-> NewLineCounter]

\* one call of update() on the counter of source s. lastOp records which
\* tracks the call handed over although they were counted before (skipped) and
\* which tracks got their first recorded position in it (first_seen).
Update(s) ==
    /\ TotalCount(line_counters[s]) < MaxCounts
    /\ \E objs \in ObjLists :
         LET c == line_counters[s]
             d == LineCounterUpdate(c, objs, FrameH)
         IN  /\ line_counters' = [line_counters EXCEPT ![s] = d]
             /\ lastOp' =
                  [name |-> "update", src |-> s,
                   skipped |-> {t \in c.crossed_tracks :
                                  \E i \in DOMAIN objs :
                                      objs[i].track_id = t /\ objs[i].cy # NoPos},
                   first_seen |-> {t \in Tracks :
                                     /\ c.track_positions[t] = NoPos
                                     /\ d.track_positions[t] # NoPos}]
    /\ UNCHANGED nonLC

NextLC == \E s \in DashboardSources : Update(s)

(***************************************************************************)
(* DatabaseManager (database/db_manager.py) and FirebaseSync               *)
(***************************************************************************)
Free == "free"
Writers == {"w1"}                 \* threads calling save_detection
\* with the _process_frames thread that outlived stop() (join of 2 s) next
\* to the one start() made after it
AllWriters == Writers \cup {"w2"}
Syncers == {"worker", "caller"}   \* the auto-sync worker, and a direct caller
Forcer == "forcer"                \* the thread calling force_sync_all
DBCams == {"main_camera"}
\* the classes of the detections handed to save_detection in the model
SavedClasses == {"car"}

\* .limit(50) of sync_to_firebase, scaled to the model's store
SyncBatchLimit == 2
\* batch_size = 50 of force_sync_all, scaled likewise
ForceBatchSize == 2
\* cleanup_old_data(days_to_keep=7)
DaysToKeepDefault == 7
KeepChoices == {0, 1, DaysToKeepDefault}

Ids(R) == {r.id : r \in R}

\* the id SQLite gives a new row of an INTEGER PRIMARY KEY table
NewId(R) == IF R = {} THEN 1 ELSE (CHOOSE i \in Ids(R) : \A j \in Ids(R) : j <= i) + 1

Unsynced(R) == {r \in R : ~r.synced}

Min2(a, b) == IF a < b THEN a ELSE b

\* the query of sync_to_firebase without its .limit(n) (mutant)
OrderedUnsyncedNoLimit(R, n) ==
    LET U == Unsynced(R)
        m == Cardinality(U)
    IN  {q \in [1..m -> U] :
           \A i, j \in 1..m : i < j => (q[i] # q[j] /\ q[i].ts <= q[j].ts)}

\* query(...).filter_by(synced_to_firebase=False).order_by(timestamp.asc())
\* .limit(n).all(): every answer the store may give (rows of equal timestamp
\* come in any order)
OrderedUnsynced(R, n) ==
    LET U == Unsynced(R)
        m == Min2(n, Cardinality(U))
    IN  {q \in [1..m -> U] :
           /\ \A i, j \in 1..m : i < j => (q[i] # q[j] /\ q[i].ts <= q[j].ts)
           /\ \A r \in U : (\A i \in 1..m : q[i] # r) =>
                             \A i \in 1..m : q[i].ts <= r.ts}

\* the upload loop of sync_to_firebase over batch[i..]: the ids appended to
\* synced_ids, given what sync_detection returns for each record in turn
RECURSIVE UploadLoopNoBreak(_, _, _)
UploadLoopNoBreak(batch, outcomes, i) ==
    IF i > Len(batch) THEN {}
    ELSE (IF outcomes[i] THEN {batch[i].id} ELSE {})
         \cup UploadLoopNoBreak(batch, outcomes, i + 1)

RECURSIVE UploadLoop(_, _, _)
UploadLoop(batch, outcomes, i) ==
    IF i > Len(batch) THEN {}
    ELSE IF outcomes[i]
         THEN {batch[i].id} \cup UploadLoop(batch, outcomes, i + 1)
         ELSE {}

\* what FirebaseSync.sync_detection returns: reading detection_data['local_id']
\* (line 51) raises KeyError for a record without that key, which the except
\* of line 58 turns into False, as it does a set() the remote store refuses
SyncDetection(has_local_id, accepted) == has_local_id /\ accepted

\* the record sync_to_firebase builds of a row (lines 588-597), sync_time
\* being datetime.now()
FirebaseData(r) ==
    [cam |-> r.cam, id |-> r.id, vehicle_type |-> r.vehicle_type, ts |-> r.ts,
     sync_time |-> now]

\* the same key in the remote store
SameKey(x, r) == x.cam = r.cam /\ x.id = r.id

\* an upload that adds its record under a key of its own, as push() would
\* (mutant)
RemotePush(rem, r) == rem \cup {FirebaseData(r)}

\* FirebaseSync.sync_detection succeeded: the record is set under its key
\* {camera_id}_{local_id}, in the place of what was there
RemoteSet(rem, r) ==
    {x \in rem : ~SameKey(x, r)} \cup {FirebaseData(r)}

RECURSIVE RemoteSetAll(_, _, _)
RemoteSetAll(rem, batch, ids) ==
    IF batch = {} THEN rem
    ELSE LET r == CHOOSE x \in batch : TRUE
         IN  RemoteSetAll(IF r.id \in ids THEN RemoteSet(rem, r) ELSE rem,
                          batch \ {r}, ids)

SeqRange(q) == {q[i] : i \in DOMAIN q}

\* the update of sync_to_firebase without its filter on the ids: every row
\* is marked (mutant)
MarkSyncedAll(R, ids) == {[r EXCEPT !.synced = TRUE] : r \in R}

\* update({'synced_to_firebase': True}) of the rows whose id is in ids
MarkSynced(R, ids) ==
    {IF r.id \in ids THEN [r EXCEPT !.synced = TRUE] ELSE r : r \in R}

\* the rows cleanup_old_data deletes, without the test of the sync flag (mutant)
CleanupDeletesAnySyncFlag(R, clock, days_to_keep) ==
    {r \in R : r.ts < clock - days_to_keep}

\* the rows cleanup_old_data deletes
CleanupDeletes(R, clock, days_to_keep) ==
    LET cutoff_date == clock - days_to_keep
    IN  {r \in R : r.ts < cutoff_date /\ r.synced = TRUE}

\* DailySummary(date=today, camera_id=..., cars=0, ...) with the primary key
\* the store gives it
EmptySummary(id, cam) ==
    [id |-> id, cam |-> cam, cars |-> 0, motorcycles |-> 0, buses |-> 0, trucks |-> 0]

AddVehicle(summary, vehicle_type) ==
    IF vehicle_type = "car" THEN [summary EXCEPT !.cars = @ + 1]
    ELSE IF vehicle_type = "motorcycle" THEN [summary EXCEPT !.motorcycles = @ + 1]
    ELSE IF vehicle_type = "bus" THEN [summary EXCEPT !.buses = @ + 1]
    ELSE IF vehicle_type = "truck" THEN [summary EXCEPT !.trucks = @ + 1]
    ELSE summary

\* update_daily_summary, committed: the table afterwards. The model runs
\* within one calendar date, so that a row is found by its camera.
UpdateDailySummary(S, camera_id, vehicle_type) ==
    LET found == {x \in S : x.cam = camera_id}
        summary == IF found = {} THEN EmptySummary(NewId(S), camera_id)
                   ELSE CHOOSE x \in found : TRUE
    IN  (S \ {summary}) \cup {AddVehicle(summary, vehicle_type)}

SummaryTotal(S) ==
    LET f == [x \in S |-> x.cars + x.motorcycles + x.buses + x.trucks]
    IN  SumOver(f, S)

\* the table after the commit of a VehicleDetection built with its sync
\* flag set (mutant)
InsertEventSynced(R, camera_id, vehicle_type, ts) ==
    R \cup {[id |-> NewId(R), cam |-> camera_id, vehicle_type |-> vehicle_type,
             ts |-> ts, synced |-> TRUE]}

\* the table after the commit of a new VehicleDetection (lines 57-65)
InsertEvent(R, camera_id, vehicle_type, ts) ==
    R \cup {[id |-> NewId(R), cam |-> camera_id, vehicle_type |-> vehicle_type,
             ts |-> ts, synced |-> FALSE]}

IdleSave == [pc |-> "idle"]
IdleSync == [pc |-> "idle"]

InitDB ==
    /\ rows = {}
    /\ daily_summaries = {}
    /\ remote = {}
    /\ now = 0
    /\ sd = [w \in AllWriters |-> IdleSave]
    /\ sync = [t \in Syncers |-> IdleSync]
    /\ fs = IdleSync
    /\ sync_lock = Free

\* time passes
Tick ==
    /\ now < MaxTime
    /\ now' = now + 1
    /\ lastOp' = [name |-> "tick"]
    /\ UNCHANGED <<nonDB, rows, daily_summaries, remote, sd, sync, fs, sync_lock>>

\* save_detection, lines 55-64: the VehicleDetection is built with
\* timestamp=datetime.now() and added to the session
SaveBegin(w) ==
    /\ sd[w].pc = "idle"
    /\ NewId(rows) <= MaxId
    /\ SummaryTotal(daily_summaries) < MaxSaves
    /\ \E cam \in DBCams, cls \in SavedClasses :
         sd' = [sd EXCEPT ![w] = [pc |-> "commit", cam |-> cam,
                                  vehicle_type |-> cls, ts |-> now]]
    /\ lastOp' = [name |-> "save_begin", thread |-> w]
    /\ UNCHANGED <<nonDB, rows, daily_summaries, remote, now, sync, fs, sync_lock>>

\* save_detection, line 65: session.commit() of the event, or its failure
\* (lines 73-76: rollback, return None)
SaveCommitEvent(w) ==
    /\ sd[w].pc = "commit"
    /\ NewId(rows) <= MaxId
    /\ \E ok \in BOOLEAN :
         IF ok
         THEN /\ rows' = InsertEvent(rows, sd[w].cam, sd[w].vehicle_type, sd[w].ts)
              /\ sd' = [sd EXCEPT ![w] = [@ EXCEPT !.pc = "summary"]]
              /\ lastOp' = [name |-> "save_commit", thread |-> w]
         ELSE /\ rows' = rows
              /\ sd' = [sd EXCEPT ![w] = IdleSave]
              /\ lastOp' = [name |-> "save_detection", thread |-> w,
                            event_stored |-> FALSE, summary_updated |-> FALSE]
    /\ UNCHANGED <<nonDB, daily_summaries, remote, now, sync, fs, sync_lock>>

\* save_detection, line 68: update_daily_summary commits, or fails and
\* swallows its exception (lines 190-192); save_detection then returns
SaveSummary(w) ==
    /\ sd[w].pc = "summary"
    /\ \E ok \in BOOLEAN :
         /\ daily_summaries' =
              IF ok THEN UpdateDailySummary(daily_summaries, sd[w].cam, sd[w].vehicle_type)
              ELSE daily_summaries
         /\ lastOp' = [name |-> "save_detection", thread |-> w,
                       event_stored |-> TRUE, summary_updated |-> ok]
    /\ sd' = [sd EXCEPT ![w] = IdleSave]
    /\ UNCHANGED <<nonDB, rows, remote, now, sync, fs, sync_lock>>

\* sync_to_firebase, lines 573-584: the lock is taken and the batch selected
SyncSelect(t) ==
    /\ sync[t].pc = "idle"
    /\ sync_lock = Free
    /\ \E unsynced \in OrderedUnsynced(rows, SyncBatchLimit) :
         IF unsynced = << >>
         THEN /\ sync' = sync
              /\ sync_lock' = Free
              /\ lastOp' = [name |-> "sync_pass", thread |-> t, start |-> {},
                            marked |-> {}, uploaded |-> {}]
         ELSE /\ sync' = [sync EXCEPT ![t] = [pc |-> "upload", batch |-> unsynced,
                                              start |-> Unsynced(rows)]]
              /\ sync_lock' = t
              /\ lastOp' = [name |-> "sync_select", thread |-> t]
    /\ UNCHANGED <<nonDB, rows, daily_summaries, remote, now, sd, fs>>

\* sync_to_firebase, lines 586-602: the uploads, up to the first failure
SyncUpload(t) ==
    /\ sync[t].pc = "upload"
    /\ \E outcomes \in [1..Len(sync[t].batch) -> BOOLEAN] :
         LET synced_ids == UploadLoop(sync[t].batch, outcomes, 1)
         IN  /\ remote' = RemoteSetAll(remote, SeqRange(sync[t].batch), synced_ids)
             /\ sync' = [sync EXCEPT ![t] = [@ EXCEPT !.pc = "mark"] @@
                                            [synced_ids |-> synced_ids]]
             /\ lastOp' = [name |-> "sync_upload", thread |-> t,
                           reuploaded |->
                              {r.id : r \in {b \in SeqRange(sync[t].batch) :
                                   /\ b.id \in synced_ids
                                   /\ \E x \in remote : SameKey(x, b) /\ x.ts = b.ts}}]
    /\ UNCHANGED <<nonDB, rows, daily_summaries, now, sd, fs, sync_lock>>

\* sync_to_firebase, lines 605-620: the batch update and its commit (or the
\* rollback when it fails), and the release of the lock
SyncMark(t) ==
    /\ sync[t].pc = "mark"
    /\ \E ok \in BOOLEAN :
         LET after == IF ok THEN MarkSynced(rows, sync[t].synced_ids) ELSE rows
         IN  /\ rows' = after
             /\ lastOp' = [name |-> "sync_pass", thread |-> t,
                           start |-> sync[t].start,
                           marked |-> Ids(Unsynced(rows)) \ Ids(Unsynced(after)),
                           uploaded |-> sync[t].synced_ids]
    /\ sync' = [sync EXCEPT ![t] = IdleSync]
    /\ sync_lock' = Free
    /\ UNCHANGED <<nonDB, daily_summaries, remote, now, sd, fs>>

\* force_sync_all, lines 384-393: a batch is selected (no lock is taken, no
\* order is asked for); an empty batch ends the call
ForceSelect ==
    /\ fs.pc = "idle" \/ fs.pc = "select"
    /\ LET U == Unsynced(rows)
           m == Min2(ForceBatchSize, Cardinality(U))
       IN  \E batch \in {B \in SUBSET U : Cardinality(B) = m} :
             fs' = IF batch = {} THEN IdleSync
                   ELSE [pc |-> "upload", batch |-> batch]
    /\ lastOp' = [name |-> "force_select"]
    /\ UNCHANGED <<nonDB, rows, daily_summaries, remote, now, sd, sync, sync_lock>>

\* force_sync_all, lines 395-408: every record of the batch is handed to
\* sync_detection; a failed upload is passed over. The records are built
\* with the key 'id' and without 'local_id' (lines 397-405), so that
\* sync_detection returns False for each of them, whatever the remote store
\* would accept.
ForceUpload ==
    /\ fs.pc = "upload"
    /\ \E accepted \in SUBSET fs.batch :
         LET okrows == {r \in accepted : SyncDetection(FALSE, TRUE)}
         IN  /\ remote' = RemoteSetAll(remote, fs.batch, Ids(okrows))
             /\ fs' = [pc |-> "delete", batch |-> fs.batch, synced_ids |-> Ids(okrows)]
    /\ lastOp' = [name |-> "force_upload"]
    /\ UNCHANGED <<nonDB, rows, daily_summaries, now, sd, sync, sync_lock>>

\* force_sync_all, lines 411-419: the uploaded rows are deleted, and the loop
\* goes on with the next batch
ForceDelete ==
    /\ fs.pc = "delete"
    /\ rows' = {r \in rows : r.id \notin fs.synced_ids}
    /\ fs' = [pc |-> "select"]
    /\ lastOp' = [name |-> "force_delete"]
    /\ UNCHANGED <<nonDB, daily_summaries, remote, now, sd, sync, sync_lock>>

\* cleanup_old_data(days_to_keep): the delete and its commit, or the rollback
CleanupOldData ==
    /\ \E days_to_keep \in KeepChoices, ok \in BOOLEAN :
         LET deleted == IF ok THEN CleanupDeletes(rows, now, days_to_keep) ELSE {}
         IN  /\ rows' = rows \ deleted
             /\ lastOp' = [name |-> "cleanup", deleted |-> deleted,
                           cutoff |-> now - days_to_keep]
    /\ UNCHANGED <<nonDB, daily_summaries, remote, now, sd, sync, fs, sync_lock>>

SaveStep == \E w \in Writers : SaveBegin(w) \/ SaveCommitEvent(w) \/ SaveSummary(w)

SyncStep == \E t \in Syncers : SyncSelect(t) \/ SyncUpload(t) \/ SyncMark(t)

\* save_detection called by either of two _process_frames threads
SaveStepAny ==
    \E w \in AllWriters : SaveBegin(w) \/ SaveCommitEvent(w) \/ SaveSummary(w)

\* the store with its writers, the sync passes, the retention cleanup and
\* the clock
NextDB ==
    \/ Tick
    \/ SaveStep
    \/ SyncStep
    \/ CleanupOldData

\* the sync entry points side by side: sync_to_firebase of the worker and of
\* a direct caller, and force_sync_all
NextSync ==
    \/ SaveStep
    \/ SyncStep
    \/ ForceSelect
    \/ ForceUpload
    \/ ForceDelete

\* two threads saving detections while the auto-sync worker runs its passes
NextOrder ==
    \/ Tick
    \/ SaveStepAny
    \/ SyncSelect("worker")
    \/ SyncUpload("worker")
    \/ SyncMark("worker")

\* force_sync_all called on a store that is being written to
NextForce ==
    \/ SaveStep
    \/ ForceSelect
    \/ ForceUpload
    \/ ForceDelete

(***************************************************************************)
(* CameraManager (camera/camera_manager.py) and the consumers of its       *)
(* frame queues                                                            *)
(***************************************************************************)
Cams == {"c1"}
\* the camera ids of the runs with two sources
AllCams == Cams \cup {"c2"}
NoFrame == 0                      \* Python None for a frame
ThreadIds == 1..MaxThreads
\* isinstance(source, int) or not
SourceKinds == {"device", "stream"}
\* _BACKENDS on Linux: [cv2.CAP_V4L2, cv2.CAP_ANY]
NumBackends == 2
\* range(3) of _test_webcam
ProbeAttempts == 3
\* max_retries = 3 of _capture_frames
max_retries == 3
\* Queue(maxsize=2)
QueueMaxSize == 2

\* what the device does during a probe, per backend: whether
\* cv2.VideoCapture(index, backend) opens (an exception counts as not opened),
\* and whether each cap.read() yields a non-empty frame
BackendOutcomes ==
    {[opened |-> FALSE, reads |-> [a \in 1..ProbeAttempts |-> FALSE]]}
    \cup [opened : {TRUE}, reads : [1..ProbeAttempts -> BOOLEAN]]
ProbeOutcomes == [1..NumBackends -> BackendOutcomes]

\* the attempts loop of _test_webcam, lines 85-90
RECURSIVE ProbeReads(_, _)
ProbeReads(reads, attempt) ==
    IF attempt > ProbeAttempts THEN FALSE
    ELSE IF reads[attempt] THEN TRUE
    ELSE ProbeReads(reads, attempt + 1)

\* _test_webcam with a probe that takes an opened device for a working one
\* (mutant)
RECURSIVE TestWebcamOpenOnly(_, _)
TestWebcamOpenOnly(outcomes, backend) ==
    IF backend > NumBackends THEN FALSE
    ELSE IF outcomes[backend].opened THEN TRUE
    ELSE TestWebcamOpenOnly(outcomes, backend + 1)

\* _test_webcam: the loop over _BACKENDS from backend on
RECURSIVE TestWebcam(_, _)
TestWebcam(outcomes, backend) ==
    IF backend > NumBackends THEN FALSE
    ELSE IF outcomes[backend].opened /\ ProbeReads(outcomes[backend].reads, 1)
         THEN TRUE
         ELSE TestWebcam(outcomes, backend + 1)

NewEntry(source) ==
    [source |-> source, frame_queue |-> << >>, active |-> TRUE, last_frame |-> NoFrame]

UnstartedThread == [pc |-> "unstarted", cam |-> "none", retry_count |-> 0, cap |-> "none"]

StartedThreads == {th \in ThreadIds : capt[th].pc # "unstarted"}
\* a thread that has left _capture_frames: by its end, or by an exception
Ended(th) == capt[th].pc \in {"exited", "crashed"}

\* detection_loop between two cameras
IdleLoop == [pc |-> "idle", cam |-> "none", orphan |-> FALSE, q |-> << >>]

InitCam ==
    /\ cameras = << >>
    /\ threads = << >>
    /\ capt = [th \in ThreadIds |-> UnstartedThread]
    /\ rm = [pc |-> "idle"]
    /\ published = [c \in AllCams |-> NoFrame]
    /\ frame_no = 0
    /\ dl = IdleLoop
    /\ gf = [pc |-> "idle"]

\* dict with key k removed
Without(f, k) == [x \in (DOMAIN f) \ {k} |-> f[x]]
\* dict with f[k] = v set
With(f, k, v) == [x \in (DOMAIN f) \cup {k} |-> IF x = k THEN v ELSE f[x]]

\* what a probe met: no backend yielded a frame within its attempts
NoBackendYieldsFrame(outcomes) ==
    \A b \in 1..NumBackends :
        ~outcomes[b].opened \/ \A a \in 1..ProbeAttempts : ~outcomes[b].reads[a]

\* add_camera(camera_id, source) with _test_webcam and _start_capture.
\* lastOp records whether the probe ran and what the device did in it.
AddCamera ==
    /\ rm.pc = "idle"
    /\ \E camera_id \in Cams, source \in SourceKinds :
         IF camera_id \in DOMAIN cameras
         THEN /\ UNCHANGED <<cameras, threads, capt, published>>
              /\ lastOp' = [name |-> "add_camera", cam |-> camera_id, probed |-> FALSE,
                            no_frame |-> FALSE, raised |-> FALSE]
         ELSE \E outcomes \in ProbeOutcomes :
              IF source = "device" /\ ~TestWebcam(outcomes, 1)
              THEN /\ UNCHANGED <<cameras, threads, capt, published>>
                   /\ lastOp' = [name |-> "add_camera", cam |-> camera_id,
                                 probed |-> TRUE,
                                 no_frame |-> NoBackendYieldsFrame(outcomes),
                                 raised |-> TRUE]
              ELSE /\ \E th \in ThreadIds :
                        /\ capt[th].pc = "unstarted"
                        /\ \A other \in ThreadIds :
                              other < th => capt[other].pc # "unstarted"
                        /\ capt' = [capt EXCEPT ![th] =
                                      [pc |-> "loop", cam |-> camera_id,
                                       retry_count |-> 0, cap |-> "none"]]
                        /\ threads' = With(threads, camera_id, th)
                   /\ cameras' = With(cameras, camera_id, NewEntry(source))
                   /\ published' = [published EXCEPT ![camera_id] = NoFrame]
                   /\ lastOp' = [name |-> "add_camera", cam |-> camera_id,
                                 probed |-> (source = "device"),
                                 no_frame |-> (source = "device"
                                               /\ NoBackendYieldsFrame(outcomes)),
                                 raised |-> FALSE]
    /\ UNCHANGED <<nonCam, rm, frame_no, dl, gf>>

\* add_camera called with any of the ids of the runs with two sources
AddSource ==
    /\ rm.pc = "idle"
    /\ \E camera_id \in AllCams, source \in SourceKinds :
         IF camera_id \in DOMAIN cameras
         THEN /\ UNCHANGED <<cameras, threads, capt, published>>
              /\ lastOp' = [name |-> "add_camera", cam |-> camera_id, probed |-> FALSE,
                            no_frame |-> FALSE, raised |-> FALSE]
         ELSE \E outcomes \in ProbeOutcomes :
              IF source = "device" /\ ~TestWebcam(outcomes, 1)
              THEN /\ UNCHANGED <<cameras, threads, capt, published>>
                   /\ lastOp' = [name |-> "add_camera", cam |-> camera_id,
                                 probed |-> TRUE,
                                 no_frame |-> NoBackendYieldsFrame(outcomes),
                                 raised |-> TRUE]
              ELSE /\ \E th \in ThreadIds :
                        /\ capt[th].pc = "unstarted"
                        /\ \A other \in ThreadIds :
                              other < th => capt[other].pc # "unstarted"
                        /\ capt' = [capt EXCEPT ![th] =
                                      [pc |-> "loop", cam |-> camera_id,
                                       retry_count |-> 0, cap |-> "none"]]
                        /\ threads' = With(threads, camera_id, th)
                   /\ cameras' = With(cameras, camera_id, NewEntry(source))
                   /\ published' = [published EXCEPT ![camera_id] = NoFrame]
                   /\ lastOp' = [name |-> "add_camera", cam |-> camera_id,
                                 probed |-> (source = "device"),
                                 no_frame |-> (source = "device"
                                               /\ NoBackendYieldsFrame(outcomes)),
                                 raised |-> FALSE]
    /\ UNCHANGED <<nonCam, rm, frame_no, dl, gf>>

\* remove_camera, lines 106-108: the entry is marked inactive
RemoveBegin ==
    /\ rm.pc = "idle"
    /\ \E camera_id \in Cams :
         /\ camera_id \in DOMAIN cameras
         /\ cameras' = [cameras EXCEPT ![camera_id].active = FALSE]
         /\ rm' = [pc |-> "join", cam |-> camera_id]
         /\ lastOp' = [name |-> "remove_begin", cam |-> camera_id]
    /\ UNCHANGED <<nonCam, threads, capt, published, frame_no, dl, gf>>

\* detection_loop holds camera_data, the entry it looked up (app.py 574):
\* when remove_camera deletes the entry of that camera from the map, the
\* loop is left with the removed entry's queue, which no one else reaches
Orphan(d, camera_id) ==
    IF d.pc = "get" /\ d.cam = camera_id /\ ~d.orphan
    THEN [d EXCEPT !.orphan = TRUE, !.q = cameras[camera_id].frame_queue]
    ELSE d

\* remove_camera with a join that has no timeout: it returns only once the
\* capture thread has ended (mutant)
RemoveFinishNoTimeout ==
    /\ rm.pc = "join"
    /\ rm.cam \in DOMAIN threads => Ended(threads[rm.cam])
    /\ threads' = Without(threads, rm.cam)
    /\ cameras' = Without(cameras, rm.cam)
    /\ lastOp' = [name |-> "remove_camera", cam |-> rm.cam, timed_out |-> FALSE]
    /\ rm' = [pc |-> "idle"]
    /\ dl' = Orphan(dl, rm.cam)
    /\ UNCHANGED <<nonCam, capt, published, frame_no, gf>>

\* remove_camera, lines 111-116: join(timeout=2) returns, because the thread
\* has ended or because the timeout has elapsed; the thread and the entry
\* are deleted
RemoveFinish ==
    /\ rm.pc = "join"
    /\ LET camera_id == rm.cam
           joined == camera_id \in DOMAIN threads => Ended(threads[camera_id])
       IN  /\ threads' = Without(threads, camera_id)
           /\ cameras' = Without(cameras, camera_id)
           /\ lastOp' = [name |-> "remove_camera", cam |-> camera_id,
                         timed_out |-> ~joined]
    /\ rm' = [pc |-> "idle"]
    /\ dl' = Orphan(dl, rm.cam)
    /\ UNCHANGED <<nonCam, capt, published, frame_no, gf>>

\* get_frame(camera_id): the queue is drained and the last frame taken out
\* of it returned; without one, last_frame
GetFrame ==
    /\ \E camera_id \in Cams :
         IF camera_id \notin DOMAIN cameras
         THEN /\ cameras' = cameras
              /\ lastOp' = [name |-> "get_frame", cam |-> camera_id, result |-> NoFrame]
         ELSE LET camera_data == cameras[camera_id]
                  q == camera_data.frame_queue
                  frame == IF q = << >> THEN camera_data.last_frame ELSE q[Len(q)]
              IN  /\ cameras' = [cameras EXCEPT ![camera_id].frame_queue = << >>,
                                                ![camera_id].last_frame = frame]
                  /\ lastOp' = [name |-> "get_frame", cam |-> camera_id, result |-> frame]
    /\ UNCHANGED <<nonCam, threads, capt, rm, published, frame_no, dl, gf>>

\* detection_loop, lines 571-576: a frame is taken from the queue of a camera
\* that has one
DetectionTake ==
    /\ \E cam_id \in DOMAIN cameras :
         /\ cameras[cam_id].frame_queue # << >>
         /\ cameras' = [cameras EXCEPT ![cam_id].frame_queue = Tail(@)]
         /\ lastOp' = [name |-> "detection_take", cam |-> cam_id,
                       frame |-> Head(cameras[cam_id].frame_queue)]
    /\ UNCHANGED <<nonCam, threads, capt, rm, published, frame_no, dl, gf>>

\* _capture_frames with a loop condition that lets one more attempt through
\* once the retries are exhausted (mutant)
CaptureLoopOneMore(th) ==
    /\ capt[th].pc = "loop"
    /\ LET camera_id == capt[th].cam
       IN  capt' = [capt EXCEPT ![th] =
              IF camera_id \notin DOMAIN cameras
              THEN [@ EXCEPT !.pc = "crashed"]
              ELSE IF cameras[camera_id].active /\ capt[th].retry_count <= max_retries
                   THEN [@ EXCEPT !.pc = IF capt[th].cap = "open" THEN "read" ELSE "open"]
                   ELSE [@ EXCEPT !.pc = "exited", !.cap = "none"]]
    /\ lastOp' = [name |-> "capture_loop", thread |-> th]
    /\ UNCHANGED <<nonCam, cameras, threads, rm, published, frame_no, dl, gf>>

\* _capture_frames, line 160: the loop condition. Reading the entry of a
\* camera that is no longer in the map raises KeyError outside of every try.
\* Lines 285-288: after the loop the handle is released.
CaptureLoop(th) ==
    /\ capt[th].pc = "loop"
    /\ LET camera_id == capt[th].cam
       IN  capt' = [capt EXCEPT ![th] =
              IF camera_id \notin DOMAIN cameras
              THEN [@ EXCEPT !.pc = "crashed"]
              ELSE IF cameras[camera_id].active /\ capt[th].retry_count < max_retries
                   THEN [@ EXCEPT !.pc = IF capt[th].cap = "open" THEN "read" ELSE "open"]
                   ELSE [@ EXCEPT !.pc = "exited", !.cap = "none"]]
    /\ lastOp' = [name |-> "capture_loop", thread |-> th]
    /\ UNCHANGED <<nonCam, cameras, threads, rm, published, frame_no, dl, gf>>

\* _capture_frames, lines 163-229: the source is opened, or the attempt
\* fails (retry_count += 1 and a sleep). A missing entry raises KeyError,
\* caught at line 280.
CaptureOpen(th) ==
    /\ capt[th].pc = "open"
    /\ \E opened \in BOOLEAN :
         capt' = [capt EXCEPT ![th] =
            IF capt[th].cam \notin DOMAIN cameras
            THEN [@ EXCEPT !.pc = "loop", !.retry_count = @ + 1]
            ELSE IF opened
                 THEN [@ EXCEPT !.pc = "read", !.cap = "open"]
                 ELSE [@ EXCEPT !.pc = "loop", !.retry_count = @ + 1]]
    /\ lastOp' = [name |-> "capture_open", thread |-> th]
    /\ UNCHANGED <<nonCam, cameras, threads, rm, published, frame_no, dl, gf>>

\* the queue after lines 252-258: the oldest frame is dropped from a full
\* queue, and the new frame put
Publish(q, frame) ==
    Append(IF Len(q) >= QueueMaxSize THEN Tail(q) ELSE q, frame)

\* a capture thread that publishes each frame into the queue of every
\* registered camera (mutant)
CaptureReadShared(th) ==
    /\ capt[th].pc = "read"
    /\ \E outcome \in {"frame", "no_frame", "exception"} :
         LET camera_id == capt[th].cam
         IN  IF outcome = "frame" /\ camera_id \in DOMAIN cameras
             THEN /\ frame_no < MaxFrames
                  /\ frame_no' = frame_no + 1
                  /\ cameras' = [d \in DOMAIN cameras |->
                                   [cameras[d] EXCEPT !.frame_queue =
                                                          Publish(@, frame_no + 1)]]
                  /\ published' = [published EXCEPT ![camera_id] = frame_no + 1]
                  /\ capt' = [capt EXCEPT ![th] = [@ EXCEPT !.pc = "loop",
                                                            !.retry_count = 0]]
             ELSE /\ UNCHANGED <<cameras, published, frame_no>>
                  /\ capt' = [capt EXCEPT ![th] =
                        IF outcome = "no_frame"
                        THEN [@ EXCEPT !.pc = "loop", !.retry_count = @ + 1]
                        ELSE [@ EXCEPT !.pc = "loop", !.retry_count = @ + 1,
                                       !.cap = "none"]]
    /\ lastOp' = [name |-> "capture_read", thread |-> th]
    /\ UNCHANGED <<nonCam, threads, rm, dl, gf>>

\* _capture_frames, lines 232-278: a frame is read and published, or the
\* read fails (retry_count += 1 and a sleep), or an exception is raised
\* (retry_count += 1, the handle released). Publishing into a missing entry
\* raises KeyError, caught at line 268.
CaptureRead(th) ==
    /\ capt[th].pc = "read"
    /\ \E outcome \in {"frame", "no_frame", "exception"} :
         LET camera_id == capt[th].cam
         IN  IF outcome = "frame" /\ camera_id \in DOMAIN cameras
             THEN /\ frame_no < MaxFrames
                  /\ frame_no' = frame_no + 1
                  /\ cameras' = [cameras EXCEPT ![camera_id].frame_queue =
                                                    Publish(@, frame_no + 1)]
                  /\ published' = [published EXCEPT ![camera_id] = frame_no + 1]
                  /\ capt' = [capt EXCEPT ![th] = [@ EXCEPT !.pc = "loop",
                                                            !.retry_count = 0]]
             ELSE /\ UNCHANGED <<cameras, published, frame_no>>
                  /\ capt' = [capt EXCEPT ![th] =
                        IF outcome = "no_frame"
                        THEN [@ EXCEPT !.pc = "loop", !.retry_count = @ + 1]
                        ELSE [@ EXCEPT !.pc = "loop", !.retry_count = @ + 1,
                                       !.cap = "none"]]
    /\ lastOp' = [name |-> "capture_read", thread |-> th]
    /\ UNCHANGED <<nonCam, threads, rm, dl, gf>>

CaptureStep == \E th \in ThreadIds : CaptureLoop(th) \/ CaptureOpen(th) \/ CaptureRead(th)

\* two sources side by side: both are added, and their capture threads and
\* the detection loop run
NextSources ==
    \/ AddSource
    \/ DetectionTake
    \/ CaptureStep

NextCam ==
    \/ AddCamera
    \/ RemoveBegin
    \/ RemoveFinish
    \/ GetFrame
    \/ DetectionTake
    \/ CaptureStep

(***************************************************************************)
(* The readers step by step: get_frame and the take of detection_loop are  *)
(* not atomic. Between the test of the map and the lookup, and between     *)
(* empty() and get(), other threads run.                                   *)
(***************************************************************************)
\* get_frame, lines 120-121: `if camera_id not in self.cameras: return None`
GetFrameCheck ==
    /\ gf.pc = "idle"
    /\ \E camera_id \in Cams :
         IF camera_id \notin DOMAIN cameras
         THEN /\ gf' = gf
              /\ lastOp' = [name |-> "get_frame", cam |-> camera_id,
                            result |-> NoFrame, raised |-> FALSE]
         ELSE /\ gf' = [pc |-> "checked", cam |-> camera_id]
              /\ lastOp' = [name |-> "get_frame_check", cam |-> camera_id]
    /\ UNCHANGED <<nonCam, cameras, threads, capt, rm, published, frame_no, dl>>

\* get_frame, lines 123-140: the lookup self.cameras[camera_id], which
\* raises KeyError for an id that is in the map no more, then the drain of
\* the queue (get_nowait in a try) and the fallback to last_frame
GetFrameRead ==
    /\ gf.pc = "checked"
    /\ LET camera_id == gf.cam
       IN  IF camera_id \notin DOMAIN cameras
           THEN /\ cameras' = cameras
                /\ lastOp' = [name |-> "get_frame", cam |-> camera_id,
                              result |-> NoFrame, raised |-> TRUE]
           ELSE LET camera_data == cameras[camera_id]
                    q == camera_data.frame_queue
                    frame == IF q = << >> THEN camera_data.last_frame ELSE q[Len(q)]
                IN  /\ cameras' = [cameras EXCEPT ![camera_id].frame_queue = << >>,
                                                  ![camera_id].last_frame = frame]
                    /\ lastOp' = [name |-> "get_frame", cam |-> camera_id,
                                  result |-> frame, raised |-> FALSE]
    /\ gf' = [pc |-> "idle"]
    /\ UNCHANGED <<nonCam, threads, capt, rm, published, frame_no, dl>>

\* detection_loop, lines 569-572: a camera id of the copied key list passes
\* the test `cam_id not in self.camera_manager.cameras`
DetectionPick ==
    /\ dl.pc = "idle"
    /\ \E cam_id \in DOMAIN cameras :
         /\ dl' = [IdleLoop EXCEPT !.pc = "picked", !.cam = cam_id]
         /\ lastOp' = [name |-> "detection_pick", cam |-> cam_id]
    /\ UNCHANGED <<nonCam, cameras, threads, capt, rm, published, frame_no, gf>>

\* detection_loop, lines 574-575: the lookup of camera_data, which raises
\* KeyError for an id removed since the test (caught at line 652, where the
\* pass over the cameras ends), and frame_queue.empty()
DetectionLookup ==
    /\ dl.pc = "picked"
    /\ IF dl.cam \notin DOMAIN cameras
       THEN /\ dl' = IdleLoop
            /\ lastOp' = [name |-> "detection_lookup", cam |-> dl.cam,
                          raised |-> TRUE, empty |-> FALSE]
       ELSE LET empty == cameras[dl.cam].frame_queue = << >>
            IN  /\ dl' = IF empty THEN IdleLoop ELSE [dl EXCEPT !.pc = "get"]
                /\ lastOp' = [name |-> "detection_lookup", cam |-> dl.cam,
                              raised |-> FALSE, empty |-> empty]
    /\ UNCHANGED <<nonCam, cameras, threads, capt, rm, published, frame_no, gf>>

\* the queue detection_loop holds in camera_data
HeldQueue == IF dl.orphan THEN dl.q ELSE cameras[dl.cam].frame_queue

\* detection_loop is inside frame_queue.get() (line 576) and the queue is
\* empty: Queue.get blocks until some thread puts a frame
DetectionBlocked == dl.pc = "get" /\ HeldQueue = << >>

\* detection_loop, line 576: frame_queue.get() returns the oldest frame of
\* the queue once there is one
DetectionGet ==
    /\ dl.pc = "get"
    /\ HeldQueue # << >>
    /\ cameras' = IF dl.orphan THEN cameras
                  ELSE [cameras EXCEPT ![dl.cam].frame_queue = Tail(@)]
    /\ dl' = IdleLoop
    /\ lastOp' = [name |-> "detection_take", cam |-> dl.cam, frame |-> Head(HeldQueue)]
    /\ UNCHANGED <<nonCam, threads, capt, rm, published, frame_no, gf>>

NextReaders ==
    \/ AddCamera
    \/ RemoveBegin
    \/ RemoveFinish
    \/ GetFrameCheck
    \/ GetFrameRead
    \/ DetectionPick
    \/ DetectionLookup
    \/ DetectionGet
    \/ CaptureStep

(***************************************************************************)
(* The publish step by step: between frame_queue.full() and                *)
(* frame_queue.put(frame) other threads run.                               *)
(***************************************************************************)
\* the capture threads that hold a frame they have not put yet
Putting == {th \in ThreadIds : capt[th].pc = "put"}

\* _capture_frames, lines 232-256: a frame is read and, the queue being
\* full, the oldest frame dropped with get_nowait(); or the read fails, or an
\* exception is raised, as in CaptureRead
CaptureReadFrame(th) ==
    /\ capt[th].pc = "read"
    /\ \E outcome \in {"frame", "no_frame", "exception"} :
         LET camera_id == capt[th].cam
         IN  IF outcome = "frame" /\ camera_id \in DOMAIN cameras
             THEN /\ frame_no + Cardinality(Putting) < MaxFrames
                  /\ cameras' = [cameras EXCEPT ![camera_id].frame_queue =
                                    IF Len(@) >= QueueMaxSize THEN Tail(@) ELSE @]
                  /\ capt' = [capt EXCEPT ![th] = [@ EXCEPT !.pc = "put"]]
             ELSE /\ cameras' = cameras
                  /\ capt' = [capt EXCEPT ![th] =
                        IF outcome = "no_frame"
                        THEN [@ EXCEPT !.pc = "loop", !.retry_count = @ + 1]
                        ELSE [@ EXCEPT !.pc = "loop", !.retry_count = @ + 1,
                                       !.cap = "none"]]
    /\ lastOp' = [name |-> "capture_read", thread |-> th]
    /\ UNCHANGED <<nonCam, threads, rm, published, frame_no, dl, gf>>

\* a capture thread is inside frame_queue.put(frame) (line 258) and the
\* queue is full: Queue.put blocks until some thread takes a frame
PublishBlocked ==
    \E th \in Putting :
        /\ capt[th].cam \in DOMAIN cameras
        /\ Len(cameras[capt[th].cam].frame_queue) >= QueueMaxSize

\* _capture_frames, lines 258-259: frame_queue.put(frame) returns once the
\* queue has room, and retry_count is reset. The lookup of a removed entry
\* raises KeyError, caught at line 268.
CapturePut(th) ==
    /\ capt[th].pc = "put"
    /\ LET camera_id == capt[th].cam
       IN  IF camera_id \notin DOMAIN cameras
           THEN /\ UNCHANGED <<cameras, published, frame_no>>
                /\ capt' = [capt EXCEPT ![th] =
                              [@ EXCEPT !.pc = "loop", !.retry_count = @ + 1,
                                        !.cap = "none"]]
           ELSE /\ Len(cameras[camera_id].frame_queue) < QueueMaxSize
                /\ frame_no' = frame_no + 1
                /\ cameras' = [cameras EXCEPT ![camera_id].frame_queue =
                                                  Append(@, frame_no + 1)]
                /\ published' = [published EXCEPT ![camera_id] = frame_no + 1]
                /\ capt' = [capt EXCEPT ![th] = [@ EXCEPT !.pc = "loop",
                                                          !.retry_count = 0]]
    /\ lastOp' = [name |-> "capture_put", thread |-> th]
    /\ UNCHANGED <<nonCam, threads, rm, dl, gf>>

NextPublish ==
    \/ AddCamera
    \/ RemoveBegin
    \/ RemoveFinish
    \/ DetectionTake
    \/ \E th \in ThreadIds : CaptureLoop(th) \/ CaptureOpen(th)
    \/ \E th \in ThreadIds : CaptureReadFrame(th)
    \/ \E th \in ThreadIds : CapturePut(th)



(***************************************************************************)
(* Plate de-duplication of TrafficDashboard.detection_loop (dashboard/     *)
(* app.py) and DatabaseManager.save_plate_detection                        *)
(***************************************************************************)
PlateCams == {"cam1", "cam2"}
\* plate numbers as PlateDetector._clean_plate_text returns them
PlateNumbers == {"B1234XYZ"}
\* the instants (seconds) at which detection_loop looks at the clock
Instants == {0, 3, 6, 40, 43, 86403}

PlateWindow == 5        \* "Only save if not seen in last 5 seconds"
PlateRetention == 30    \* entries of recent_plates older than this are dropped
SecondsPerDay == 86400

\* timedelta.seconds of a non-negative difference d of two datetimes: the
\* seconds within the day, the days left out
Seconds(d) == d % SecondsPerDay

\* plate_number.upper().replace(' ', '') of save_plate_detection, on the
\* strings the model uses
NormalisePlate(p) ==
    CASE p = "b1234 xyz" -> "B1234XYZ"
      [] p = "B 1234 XYZ" -> "B1234XYZ"
      [] OTHER -> p

\* the entries of recent_plates for a camera id; none before its first plate
PlateEntries(cam_id) ==
    IF cam_id \in DOMAIN recent_plates THEN recent_plates[cam_id] ELSE {}

\* detection_loop with nothing held back: no plate counts as recent (mutant)
RecentNone(entries, t) == {}

\* detection_loop, lines 624-625: the plates seen in the last 5 seconds
Recent(entries, t) == {e[1] : e \in {x \in entries : Seconds(t - x[2]) < PlateWindow}}

\* detection_loop, lines 635-638: the entries kept
Retained(entries, t) == {x \in entries : Seconds(t - x[2]) < PlateRetention}

InitPlate ==
    /\ recent_plates = << >>
    /\ plate_rows = {}
    /\ wall = 0

\* time passes between two iterations of detection_loop
PlateTick ==
    /\ \E t \in Instants :
         /\ t > wall
         /\ wall' = t
    /\ lastOp' = [name |-> "plate_tick"]
    /\ UNCHANGED <<nonPlate, recent_plates, plate_rows>>

\* detection_loop, lines 609-638, for an object with a plate: the plate is
\* saved unless it is recent for the camera, and the entries are cleaned up.
\* save_plate_detection stores the row, or fails and returns None.
PlateDetected ==
    /\ Cardinality(plate_rows) < MaxPlateRows
    /\ \E cam_id \in PlateCams, plate_num \in PlateNumbers, store_ok \in BOOLEAN :
         LET entries == PlateEntries(cam_id)
             save == plate_num \notin Recent(entries, wall)
             appended == IF save THEN entries \cup {<<plate_num, wall>>} ELSE entries
         IN  /\ save \/ store_ok
             /\ plate_rows' =
                  IF save /\ store_ok
                  THEN plate_rows \cup {[id |-> NewId(plate_rows), cam |-> cam_id,
                                         plate_number |-> NormalisePlate(plate_num),
                                         ts |-> wall, synced |-> FALSE]}
                  ELSE plate_rows
             /\ recent_plates' = With(recent_plates, cam_id, Retained(appended, wall))
             /\ lastOp' = [name |-> "plate", cam |-> cam_id, plate |-> plate_num,
                           attempted |-> save, stored |-> save /\ store_ok]
    /\ UNCHANGED <<nonPlate, wall>>

NextPlate ==
    \/ PlateTick
    \/ PlateDetected

(***************************************************************************)
(* The consumer loops: TrafficDashboard.detection_loop (dashboard/app.py)  *)
(* and TrafficDetectionService._process_frames (detector.py)               *)
(***************************************************************************)
\* what save_detection meets in the store: both commits succeed, the commit
\* of the event fails, or the commit of the summary fails
SaveOutcomes == {"ok", "event_fails", "summary_fails"}

\* the detections of YOLODetector.detect_vehicles: class and center, no
\* track id
ServiceDetections ==
    {objs \in UNION {[1..n -> TrackedObjects] : n \in 1..MaxObjs} :
        \A i \in DOMAIN objs :
            /\ objs[i].track_id = NoTrack
            /\ objs[i].class \in DOMAIN class_map
            /\ objs[i].cy # NoPos}

\* the loop of _process_frames, lines 110-115, over detections[i..]: the
\* store <<rows, daily_summaries>> after save_detection of each
RECURSIVE SaveAll(_, _, _, _, _)
SaveAll(R, S, detections, outcomes, i) ==
    IF i > Len(detections) THEN <<R, S>>
    ELSE LET cls == detections[i].class
         IN  IF outcomes[i] = "event_fails"
             THEN SaveAll(R, S, detections, outcomes, i + 1)
             ELSE SaveAll(InsertEvent(R, ServiceSource, cls, now),
                          IF outcomes[i] = "ok"
                          THEN UpdateDailySummary(S, ServiceSource, cls) ELSE S,
                          detections, outcomes, i + 1)

\* one iteration of _process_frames with a frame that has detections:
\* save_detection of each, then line_counter.update(detections, frame)
ProcessFrame ==
    /\ \E detections \in ServiceDetections :
         /\ NewId(rows) + Len(detections) - 1 <= MaxId
         /\ \E outcomes \in [1..Len(detections) -> SaveOutcomes] :
              LET store == SaveAll(rows, daily_summaries, detections, outcomes, 1)
              IN  /\ rows' = store[1]
                  /\ daily_summaries' = store[2]
                  /\ total_detections' =
                        total_detections + Cardinality({i \in DOMAIN outcomes :
                                                          outcomes[i] # "event_fails"})
         /\ line_counters' = [line_counters EXCEPT
               ![ServiceSource] = LineCounterUpdate(@, detections, FrameH)]
    /\ lastOp' = [name |-> "process_frame"]
    /\ UNCHANGED <<camVars, plateVars, sumVars, workerVars, feedVars, ctlVars, svc,
                   remote, now, sd, sync, fs, sync_lock>>

\* the two consumer loops: an iteration of detection_loop reaches the store
\* nowhere (it calls LineCounter.update, and save_plate_detection for plates)
NextPipe ==
    \/ \E s \in DashboardSources : Update(s)
    \/ ProcessFrame

(***************************************************************************)
(* TrafficDetectionService._process_frames (detector.py), detection by     *)
(* detection                                                               *)
(***************************************************************************)
NoId == 0     \* Python None for the id save_detection returns

\* the detections a frame can hold: class and center, no track id
ServiceObjects ==
    {o \in TrackedObjects :
        o.track_id = NoTrack /\ o.class \in DOMAIN class_map /\ o.cy # NoPos}
ServiceFrames == UNION {[1..n -> ServiceObjects] : n \in 0..MaxDetections}

\* _process_frames between two frames
IdleService == [pc |-> "idle", detections |-> << >>, pending |-> << >>]

InitService ==
    /\ svc = IdleService
    /\ total_detections = 0

\* what save_detection returns: vehicle.id (line 71), or None when the
\* commit of the event failed (line 76)
SaveDetectionReturns(R, outcome) == IF outcome = "event_fails" THEN NoId ELSE NewId(R)

\* a loop that counts every detection it handed to save_detection (mutant)
CountedAlways(detection_id) == TRUE

\* `if detection_id:` of line 113
Counted(detection_id) == detection_id # NoId

\* _process_frames, lines 100-107: a frame is taken and the detector run; a
\* frame without detections ends the iteration
ServiceFrame ==
    /\ svc.pc = "idle"
    /\ \E detections \in ServiceFrames :
         /\ NewId(rows) + Len(detections) - 1 <= MaxId
         /\ svc' = IF detections = << >> THEN IdleService
                   ELSE [pc |-> "save", detections |-> detections,
                         pending |-> detections]
         /\ lastOp' = [name |-> "service_frame", n |-> Len(detections)]
    /\ UNCHANGED <<lcVars, dbVars, camVars, plateVars, sumVars, workerVars, feedVars, ctlVars,
                   total_detections>>

\* _process_frames, lines 110-115: save_detection of the next detection of
\* the frame, and the count of it when an id came back
ServiceSave ==
    /\ svc.pc = "save"
    /\ \E outcome \in SaveOutcomes :
         LET detection == Head(svc.pending)
             detection_id == SaveDetectionReturns(rows, outcome)
         IN  /\ rows' = IF outcome = "event_fails" THEN rows
                        ELSE InsertEvent(rows, ServiceSource, detection.class, now)
             /\ daily_summaries' =
                   IF outcome = "ok"
                   THEN UpdateDailySummary(daily_summaries, ServiceSource,
                                           detection.class)
                   ELSE daily_summaries
             /\ total_detections' = IF Counted(detection_id)
                                    THEN total_detections + 1
                                    ELSE total_detections
             /\ lastOp' = [name |-> "service_save", outcome |-> outcome,
                           detection_id |-> detection_id]
    /\ svc' = [svc EXCEPT !.pending = Tail(@),
                          !.pc = IF Tail(svc.pending) = << >> THEN "update"
                                 ELSE "save"]
    /\ UNCHANGED <<lcVars, camVars, plateVars, sumVars, workerVars, feedVars, ctlVars,
                   remote, now, sd, sync, fs, sync_lock>>

\* _process_frames, lines 118-121: line_counter.update(detections, frame),
\* and the iteration ends
ServiceUpdate ==
    /\ svc.pc = "update"
    /\ line_counters' = [line_counters EXCEPT
          ![ServiceSource] = LineCounterUpdate(@, svc.detections, FrameH)]
    /\ svc' = IdleService
    /\ lastOp' = [name |-> "service_update"]
    /\ UNCHANGED <<dbVars, camVars, plateVars, sumVars, workerVars, feedVars, ctlVars,
                   total_detections>>

NextService ==
    \/ ServiceFrame
    \/ ServiceSave
    \/ ServiceUpdate

(***************************************************************************)
(* update_daily_summary called by two threads at once                      *)
(***************************************************************************)
\* the detection threads of two services on the same store
SummaryCallers == {"s1", "s2"}

InitSummary == uds = [u \in SummaryCallers |-> [pc |-> "idle"]]

\* the classes handed over by the two threads
SummaryClasses == {"car", "bus"}
\* .first() found no row: `if not summary`
NoSummary == [id |-> NoId]

\* update_daily_summary, lines 161-168: the query for the row of the camera
\* and today; .first() takes one of the rows found
SummaryQuery(u) ==
    /\ uds[u].pc = "idle"
    /\ SummaryTotal(daily_summaries) < MaxSaves
    /\ \E camera_id \in DBCams, vehicle_type \in SummaryClasses :
         LET found == {x \in daily_summaries : x.cam = camera_id}
         IN  \E summary \in (IF found = {} THEN {NoSummary} ELSE found) :
               uds' = [uds EXCEPT ![u] = [pc |-> "commit", cam |-> camera_id,
                                          vehicle_type |-> vehicle_type,
                                          summary |-> summary]]
    /\ lastOp' = [name |-> "summary_query", thread |-> u]
    /\ UNCHANGED <<lcVars, dbVars, camVars, plateVars, svcVars, workerVars, feedVars, ctlVars>>

\* update_daily_summary, lines 170-192: without a row found a new one is
\* added; the counter of the class is set to the value read plus one, and the
\* session committed, or rolled back when the commit fails
SummaryCommit(u) ==
    /\ uds[u].pc = "commit"
    /\ \E ok \in BOOLEAN :
         LET summary == uds[u].summary
             vehicle_type == uds[u].vehicle_type
         IN  /\ daily_summaries' =
                   IF ~ok THEN daily_summaries
                   ELSE IF summary.id = NoId
                        THEN daily_summaries \cup
                               {AddVehicle(EmptySummary(NewId(daily_summaries),
                                                        uds[u].cam), vehicle_type)}
                        ELSE {IF x.id = summary.id
                              THEN AddVehicle(summary, vehicle_type)
                              ELSE x : x \in daily_summaries}
             /\ lastOp' = [name |-> "update_daily_summary", thread |-> u,
                           committed |-> ok]
    /\ uds' = [uds EXCEPT ![u] = [pc |-> "idle"]]
    /\ UNCHANGED <<lcVars, camVars, plateVars, svcVars, workerVars, feedVars, ctlVars,
                   rows, remote, now, sd, sync, fs, sync_lock>>

NextSummary == \E u \in SummaryCallers : SummaryQuery(u) \/ SummaryCommit(u)

(***************************************************************************)
(* sync_worker of start_auto_sync (db_manager.py 548-560)                  *)
(***************************************************************************)
InitWorker == auto = [pc |-> "call"]

SyncInterval == 30      \* time.sleep(30) after a pass that returned
ErrorInterval == 60     \* time.sleep(60) in the except of sync_worker

\* one iteration of sync_worker up to its sleep: sync_to_firebase() as a
\* whole (the lock taken and released, the batch selected, uploaded up to the
\* first failure and marked), and cleanup_old_data() when the minute is 0.
\* sync_to_firebase catches every exception of its pass and returns
\* (lines 615-618), and the worker does not look at what it returns; only an
\* exception that escapes (raised by self.Session() of line 571, or in the
\* except or finally clause) takes the worker to its except.
WorkerPass ==
    /\ auto.pc = "call"
    /\ sync_lock = Free
    /\ \E escaped \in BOOLEAN :
         IF escaped
         THEN /\ UNCHANGED <<rows, remote>>
              /\ auto' = [pc |-> "sleep", interval |-> ErrorInterval]
              /\ lastOp' = [name |-> "worker_pass", failed |-> TRUE, escaped |-> TRUE]
         ELSE \E unsynced \in OrderedUnsynced(rows, SyncBatchLimit) :
              \E outcomes \in [1..Len(unsynced) -> BOOLEAN], ok, on_the_hour \in BOOLEAN :
                LET synced_ids == UploadLoop(unsynced, outcomes, 1)
                    marked == IF ok THEN MarkSynced(rows, synced_ids) ELSE rows
                IN  /\ remote' = RemoteSetAll(remote, SeqRange(unsynced), synced_ids)
                    /\ rows' = IF on_the_hour
                               THEN marked \ CleanupDeletes(marked, now, DaysToKeepDefault)
                               ELSE marked
                    /\ auto' = [pc |-> "sleep", interval |-> SyncInterval]
                    /\ lastOp' = [name |-> "worker_pass",
                                  failed |-> \/ synced_ids # Ids(SeqRange(unsynced))
                                             \/ (~ok /\ synced_ids # {}),
                                  escaped |-> FALSE]
    /\ UNCHANGED <<lcVars, camVars, plateVars, svcVars, sumVars, feedVars, ctlVars,
                   daily_summaries, now, sd, sync, fs, sync_lock>>

\* the sleep of sync_worker ends
WorkerWake ==
    /\ auto.pc = "sleep"
    /\ auto' = [pc |-> "call"]
    /\ lastOp' = [name |-> "worker_wake"]
    /\ UNCHANGED <<lcVars, dbVars, camVars, plateVars, svcVars, sumVars,
                   feedVars, ctlVars>>

\* the worker at its passes while vehicle events and plates are stored,
\* within one tick of the clock
NextWorker ==
    \/ SaveStep
    \/ PlateDetected
    \/ WorkerPass
    \/ WorkerWake

(***************************************************************************)
(* CameraManager of camera/camera_manager_exe.py, the manager main.py      *)
(* takes in a bundled build. Its object has the same fields cameras and    *)
(* threads; its capture thread opens the source once and has no retries.   *)
(***************************************************************************)
\* _test_webcam of the bundled build: per backend one open and one read
RECURSIVE ExeTestWebcam(_, _)
ExeTestWebcam(outcomes, backend) ==
    IF backend > NumBackends THEN FALSE
    ELSE IF outcomes[backend].opened /\ outcomes[backend].reads[1]
         THEN TRUE
         ELSE ExeTestWebcam(outcomes, backend + 1)

\* add_camera, lines 49-60: the probe of a device, then the entry is
\* assigned and a capture thread started, whether or not the id is in the
\* map. lastOp records whether it was.
ExeAddCamera ==
    /\ rm.pc = "idle"
    /\ \E camera_id \in Cams, source \in SourceKinds, outcomes \in ProbeOutcomes :
         IF source = "device" /\ ~ExeTestWebcam(outcomes, 1)
         THEN /\ UNCHANGED <<cameras, threads, capt, published>>
              /\ lastOp' = [name |-> "add_camera", cam |-> camera_id,
                            registered |-> camera_id \in DOMAIN cameras,
                            raised |-> TRUE]
         ELSE /\ \E th \in ThreadIds :
                   /\ capt[th].pc = "unstarted"
                   /\ \A other \in ThreadIds : other < th => capt[other].pc # "unstarted"
                   /\ capt' = [capt EXCEPT ![th] =
                                 [pc |-> "open", cam |-> camera_id,
                                  retry_count |-> 0, cap |-> "none"]]
                   /\ threads' = With(threads, camera_id, th)
              /\ cameras' = With(cameras, camera_id, NewEntry(source))
              /\ published' = [published EXCEPT ![camera_id] = NoFrame]
              /\ lastOp' = [name |-> "add_camera", cam |-> camera_id,
                            registered |-> camera_id \in DOMAIN cameras,
                            raised |-> FALSE]
    /\ UNCHANGED <<nonCam, rm, frame_no, dl, gf>>

\* remove_camera, lines 154-155: the entry is marked inactive
ExeRemoveBegin ==
    /\ rm.pc = "idle"
    /\ \E camera_id \in Cams :
         /\ camera_id \in DOMAIN cameras
         /\ cameras' = [cameras EXCEPT ![camera_id].active = FALSE]
         /\ rm' = [pc |-> "join", cam |-> camera_id]
         /\ lastOp' = [name |-> "remove_begin", cam |-> camera_id]
    /\ UNCHANGED <<nonCam, threads, capt, published, frame_no, dl, gf>>

\* remove_camera, lines 156-158: join(timeout=1) returns and the entry is
\* deleted; the thread stays in self.threads
ExeRemoveFinish ==
    /\ rm.pc = "join"
    /\ cameras' = Without(cameras, rm.cam)
    /\ lastOp' = [name |-> "remove_camera", cam |-> rm.cam,
                  timed_out |-> (rm.cam \in DOMAIN threads
                                 /\ ~Ended(threads[rm.cam]))]
    /\ rm' = [pc |-> "idle"]
    /\ UNCHANGED <<nonCam, threads, capt, published, frame_no, dl, gf>>

\* _capture_frames, lines 94-116: the source is read from the entry (outside
\* the try: a missing entry ends the thread by KeyError) and opened; a source
\* that does not open ends the thread
ExeCaptureOpen(th) ==
    /\ capt[th].pc = "open"
    /\ \E opened \in BOOLEAN :
         capt' = [capt EXCEPT ![th] =
            IF capt[th].cam \notin DOMAIN cameras
            THEN [@ EXCEPT !.pc = "crashed"]
            ELSE IF opened
                 THEN [@ EXCEPT !.pc = "loop", !.cap = "open"]
                 ELSE [@ EXCEPT !.pc = "exited"]]
    /\ lastOp' = [name |-> "capture_open", thread |-> th]
    /\ UNCHANGED <<nonCam, cameras, threads, rm, published, frame_no, dl, gf>>

\* _capture_frames, line 123: the loop condition, inside the outer try. With
\* the entry missing or inactive the thread ends through the finally clause,
\* which releases the handle (143-150)
ExeCaptureLoop(th) ==
    /\ capt[th].pc = "loop"
    /\ LET camera_id == capt[th].cam
       IN  capt' = [capt EXCEPT ![th] =
              IF camera_id \in DOMAIN cameras /\ cameras[camera_id].active
              THEN [@ EXCEPT !.pc = "read"]
              ELSE [@ EXCEPT !.pc = "exited", !.cap = "none"]]
    /\ lastOp' = [name |-> "capture_loop", thread |-> th]
    /\ UNCHANGED <<nonCam, cameras, threads, rm, published, frame_no, dl, gf>>

\* _capture_frames, lines 124-141: a frame is read, the queue emptied and the
\* frame put; a failed read, or a missing entry (KeyError in the bare
\* except), only sleeps
ExeCaptureRead(th) ==
    /\ capt[th].pc = "read"
    /\ \E got \in BOOLEAN :
         LET camera_id == capt[th].cam
         IN  IF got /\ camera_id \in DOMAIN cameras
             THEN /\ frame_no < MaxFrames
                  /\ frame_no' = frame_no + 1
                  /\ cameras' = [cameras EXCEPT ![camera_id].frame_queue =
                                                    <<frame_no + 1>>]
                  /\ published' = [published EXCEPT ![camera_id] = frame_no + 1]
             ELSE UNCHANGED <<cameras, published, frame_no>>
    /\ capt' = [capt EXCEPT ![th].pc = "loop"]
    /\ lastOp' = [name |-> "capture_read", thread |-> th]
    /\ UNCHANGED <<nonCam, threads, rm, dl, gf>>

ExeCaptureStep ==
    \E th \in ThreadIds : ExeCaptureOpen(th) \/ ExeCaptureLoop(th) \/ ExeCaptureRead(th)

NextExe ==
    \/ ExeAddCamera
    \/ ExeRemoveBegin
    \/ ExeRemoveFinish
    \/ ExeCaptureStep

(***************************************************************************)
(* TrafficDetectionService._capture_frames (detector.py 62-89) and the     *)
(* queue between it and _process_frames                                    *)
(***************************************************************************)
\* Queue(maxsize=10), scaled to the frames of the model
ServiceQueueMaxSize == 2

InitFeed == frame_queue = << >>

\* the queue after lines 84-85: `if not self.frame_queue.full(): put(frame)`
ServicePublish(q, frame) ==
    IF Len(q) >= ServiceQueueMaxSize THEN q ELSE Append(q, frame)

\* one iteration of the loop of _capture_frames: the read fails and the video
\* is rewound (72-75), or the frame is one of the SKIP_FRAMES skipped
\* (78-80), or it is published (84-85). lastOp records the frame handed to
\* the publish step and the queue it met.
ServiceCapture ==
    /\ \E outcome \in {"no_frame", "skipped", "frame"} :
         IF outcome = "no_frame"
         THEN /\ UNCHANGED <<frame_no, frame_queue>>
              /\ lastOp' = [name |-> "service_capture", frame |-> NoFrame,
                            before |-> frame_queue]
         ELSE /\ frame_no < MaxFrames
              /\ frame_no' = frame_no + 1
              /\ IF outcome = "skipped"
                 THEN /\ UNCHANGED frame_queue
                      /\ lastOp' = [name |-> "service_capture", frame |-> NoFrame,
                                    before |-> frame_queue]
                 ELSE /\ frame_queue' = ServicePublish(frame_queue, frame_no + 1)
                      /\ lastOp' = [name |-> "service_capture", frame |-> frame_no + 1,
                                    before |-> frame_queue]
    /\ UNCHANGED <<lcVars, dbVars, plateVars, svcVars, sumVars, workerVars, ctlVars,
                   cameras, threads, capt, rm, published, dl, gf>>

\* _process_frames, lines 96-100: a frame is taken from a queue that is not
\* empty
ServiceGet ==
    /\ frame_queue # << >>
    /\ frame_queue' = Tail(frame_queue)
    /\ lastOp' = [name |-> "service_get", frame |-> Head(frame_queue)]
    /\ UNCHANGED <<lcVars, dbVars, camVars, plateVars, svcVars, sumVars, workerVars,
                   ctlVars>>

\* the two capture loops of the repository with the consumers of their
\* queues: the service's, and the camera manager's threads
NextFeed ==
    \/ ServiceCapture
    \/ ServiceGet
    \/ AddCamera
    \/ CaptureStep
    \/ DetectionTake

(***************************************************************************)
(* start_detection, stop_detection and the detection threads of the        *)
(* dashboard (dashboard/app.py 547-569, 653-656)                           *)
(***************************************************************************)
LoopIds == 1..MaxLoops

InitCtl ==
    /\ detection_running = FALSE
    /\ loops = [l \in LoopIds |-> "unstarted"]

\* start_detection, lines 548-551: with detection_running unset, it is set
\* and a new thread started on detection_loop (the detector and the camera
\* manager are there once initialize_components has run)
StartDetection ==
    /\ IF detection_running
       THEN /\ UNCHANGED <<detection_running, loops>>
            /\ lastOp' = [name |-> "start_detection", started |-> FALSE]
       ELSE /\ detection_running' = TRUE
            /\ \E l \in LoopIds :
                 /\ loops[l] = "unstarted"
                 /\ \A other \in LoopIds : other < l => loops[other] # "unstarted"
                 /\ loops' = [loops EXCEPT ![l] = "check"]
            /\ lastOp' = [name |-> "start_detection", started |-> TRUE]
    /\ UNCHANGED <<lcVars, dbVars, camVars, plateVars, svcVars, sumVars, workerVars,
                   feedVars>>

\* stop_detection, lines 559-560: the flag is unset; the thread is not joined
StopDetection ==
    /\ detection_running' = FALSE
    /\ lastOp' = [name |-> "stop_detection", was_running |-> detection_running]
    /\ UNCHANGED <<lcVars, dbVars, camVars, plateVars, svcVars, sumVars, workerVars,
                   feedVars, loops>>

\* detection_loop, line 566: `while self.detection_running`
LoopCheck(l) ==
    /\ loops[l] = "check"
    /\ loops' = [loops EXCEPT ![l] = IF detection_running THEN "iterate" ELSE "ended"]
    /\ lastOp' = [name |-> "loop_check", loop |-> l]
    /\ UNCHANGED <<lcVars, dbVars, camVars, plateVars, svcVars, sumVars, workerVars,
                   feedVars, detection_running>>

\* detection_loop, lines 567-656: one pass over the cameras (what it does to
\* the queues, the counters and the store is modelled by the consumer
\* actions); after an exception the loop breaks if the flag is unset
LoopIterate(l) ==
    /\ loops[l] = "iterate"
    /\ \E raised \in BOOLEAN :
         /\ loops' = [loops EXCEPT ![l] = IF raised /\ ~detection_running
                                          THEN "ended" ELSE "check"]
         /\ lastOp' = [name |-> "loop_iterate", loop |-> l, raised |-> raised]
    /\ UNCHANGED <<lcVars, dbVars, camVars, plateVars, svcVars, sumVars, workerVars,
                   feedVars, detection_running>>

\* the detection threads that are in a pass over the cameras, or about to
\* start one
RunningLoops ==
    {l \in LoopIds : loops[l] = "iterate" \/ (loops[l] = "check" /\ detection_running)}

NextCtl ==
    \/ StartDetection
    \/ StopDetection
    \/ \E l \in LoopIds : LoopCheck(l) \/ LoopIterate(l)

Init ==
    /\ InitLC
    /\ InitDB
    /\ InitCam
    /\ InitPlate
    /\ InitService
    /\ InitSummary
    /\ InitWorker
    /\ InitFeed
    /\ InitCtl
    /\ lastOp = [name |-> "init"]

SpecLC == Init /\ [][NextLC]_vars

SpecDB == Init /\ [][NextDB]_vars

SpecSync == Init /\ [][NextSync]_vars

SpecCam == Init /\ [][NextCam]_vars

SpecReaders == Init /\ [][NextReaders]_vars

SpecPublish == Init /\ [][NextPublish]_vars

SpecPipe == Init /\ [][NextPipe]_vars

SpecPlate == Init /\ [][NextPlate]_vars

SpecService == Init /\ [][NextService]_vars

SpecExe == Init /\ [][NextExe]_vars

SpecFeed == Init /\ [][NextFeed]_vars

SpecCtl == Init /\ [][NextCtl]_vars

\* force_sync_all under the fairness its thread gives it: each of its steps
\* is taken in the end
SpecForce ==
    Init /\ [][NextForce]_vars
         /\ WF_vars(ForceSelect) /\ WF_vars(ForceUpload) /\ WF_vars(ForceDelete)

SpecSources == Init /\ [][NextSources]_vars

SpecOrder == Init /\ [][NextOrder]_vars

SpecSummary == Init /\ [][NextSummary]_vars

\* the worker under the fairness its loop gives it: it goes on calling
\* sync_to_firebase, and its sleeps end
SpecWorker ==
    Init /\ [][NextWorker]_vars /\ WF_vars(WorkerPass) /\ WF_vars(WorkerWake)

\* every operation that inserts, updates or deletes a row with a sync flag:
\* save_detection, save_plate_detection (through detection_loop), the
\* worker's sync_to_firebase and cleanup_old_data, within one tick of the
\* clock
NextFlags ==
    \/ SaveStep
    \/ SyncSelect("worker")
    \/ SyncUpload("worker")
    \/ SyncMark("worker")
    \/ CleanupOldData
    \/ PlateDetected

SpecFlags == Init /\ [][NextFlags]_vars

\* the camera manager with the one progress its code guarantees: a join with
\* a timeout returns. Nothing is assumed of the capture threads, which may
\* stay in a read, an open or a sleep for ever.
SpecCamLive == Init /\ [][NextCam]_vars /\ WF_vars(RemoveFinish)

(***************************************************************************)
(* Claims about the line counter, checked under SpecLC.                    *)
(***************************************************************************)

\* C1: for every counter and every track identity, the per-class counters
\* are incremented at most once in total for that identity, over any sequence
\* of update calls.
C1_CountOnce ==
    \A s \in Sources : \A t \in Tracks : line_counters[s].count_log[t] <= 1

\* an update handed over a track that was counted before, and its count is
\* still one
C1_Witness ==
    /\ lastOp.name = "update"
    /\ \E t \in lastOp.skipped : line_counters[lastOp.src].count_log[t] = 1

\* C10: a track is never counted on the update in which the counter first
\* records a position for it, wherever that first position lies.
C10_NoCountOnFirstPosition ==
    [][\A s \in Sources : \A t \in Tracks :
          line_counters[s].track_positions[t] = NoPos
          => /\ line_counters'[s].count_log[t] = line_counters[s].count_log[t]
             /\ t \notin line_counters'[s].crossed_tracks]_vars

\* an update first recorded a position at or below the line for a track and
\* did not count it
C10_Witness ==
    /\ lastOp.name = "update"
    /\ \E t \in lastOp.first_seen :
         LET c == line_counters[lastOp.src]
         IN  /\ c.track_positions[t] >= c.line_y
             /\ c.count_log[t] = 0
             /\ t \notin c.crossed_tracks

(***************************************************************************)
(* Claims about the store and the sync engine.                             *)
(***************************************************************************)

\* C2: the events a sync pass marks synced are the first k events of the
\* unsynced set as it was at pass start, in ascending timestamp order: the
\* pass never marks an event while an older event of that set stays unmarked,
\* it marks no event outside of that set, and no more than the batch limit.
C2_MarkedIsOldestPrefix ==
    lastOp.name = "sync_pass" =>
        /\ lastOp.marked \subseteq Ids(lastOp.start)
        /\ Cardinality(lastOp.marked) <= SyncBatchLimit
        /\ \A a, b \in lastOp.start :
              (a.id \in lastOp.marked /\ b.ts < a.ts) => b.id \in lastOp.marked

\* a pass marked an event and, stopped by a failed upload, left a newer
\* event of its start set unmarked
C2_Witness ==
    /\ lastOp.name = "sync_pass"
    /\ Cardinality(lastOp.marked) < SyncBatchLimit
    /\ \E a, b \in lastOp.start :
          a.id \in lastOp.marked /\ b.id \notin lastOp.marked /\ a.ts < b.ts

\* C3: cleanup_old_data never deletes a row whose sync flag is false.
C3_CleanupDeletesOnlySynced ==
    lastOp.name = "cleanup" => \A r \in lastOp.deleted : r.synced

\* a cleanup deleted a row and left an unsynced row older than its cutoff
C3_Witness ==
    /\ lastOp.name = "cleanup"
    /\ lastOp.deleted # {}
    /\ \E r \in rows : ~r.synced /\ r.ts < lastOp.cutoff

\* C5: for every detection passed to save_detection, the event row and the
\* summary increment are both stored or neither is.
C5_EventAndSummaryAtomic ==
    lastOp.name = "save_detection" => (lastOp.event_stored <=> lastOp.summary_updated)

\* C6: every crossing counted by a source's LineCounter has a DetectionEvent
\* persisted in the local store for that source.
C6_CountedIsPersisted ==
    \A s \in Sources :
        TotalCount(line_counters[s]) <= Cardinality({r \in rows : r.cam = s})

\* the threads inside a sync pass: selecting is done, uploading or marking
\* (deleting, for force_sync_all) is not
InSyncPass ==
    {t \in Syncers : sync[t].pc \in {"upload", "mark"}}
    \cup (IF fs.pc \in {"upload", "delete"} THEN {Forcer} ELSE {})

\* C7: at most one sync pass runs at a time, over sync_to_firebase of the
\* worker and of direct callers and force_sync_all.
C7_OneSyncPass == Cardinality(InSyncPass) <= 1

(***************************************************************************)
(* Claims about the camera manager.                                        *)
(***************************************************************************)

\* C4: get_frame returns none or the frame its source published last.
C4_GetFrameIsLatest ==
    lastOp.name = "get_frame" => lastOp.result \in {NoFrame, published[lastOp.cam]}

\* C8: when the entry of a source has been erased, its capture thread has
\* ended: no capture thread is at work on a source that is not in the map.
C8_NoUseAfterRemoval ==
    \A th \in StartedThreads : Ended(th) \/ capt[th].cam \in DOMAIN cameras

\* C9: when the probe of a device finds no backend yielding a frame within
\* its attempts, add_camera raises and leaves the camera map, the thread map
\* and the capture threads as they were.
C9_FailedProbeChangesNothing ==
    [][(lastOp'.name = "add_camera" /\ lastOp'.probed /\ lastOp'.no_frame)
        => /\ lastOp'.raised
           /\ cameras' = cameras
           /\ threads' = threads
           /\ capt' = capt]_vars

\* add_camera probed a device that yielded no frame and raised; the camera
\* is not in the map
C9_Witness ==
    /\ lastOp.name = "add_camera"
    /\ lastOp.probed
    /\ lastOp.no_frame
    /\ lastOp.raised
    /\ lastOp.cam \notin DOMAIN cameras

(***************************************************************************)
(* Further claims about the line counter.                                  *)
(***************************************************************************)

\* C11: for a track not yet counted, with recorded previous center p, center
\* c after the update and line row L, update() counts the track exactly when
\* (p < L and c >= L) or (p > L and c <= L), once, and the count it reports
\* for the track is downward in the first case and upward in the second; in
\* every other case (p = L included) it counts nothing for the track.
C11_CountsExactlyOnCrossing ==
    [][\A s \in Sources, t \in Tracks :
         LET c == line_counters[s]
             d == line_counters'[s]
             p == c.track_positions[t]
             cur == d.track_positions[t]
             L == d.line_y
             down == p < L /\ cur >= L
             up == p > L /\ cur <= L
         IN  (lastOp'.name = "update" /\ lastOp'.src = s
              /\ t \notin c.crossed_tracks /\ p # NoPos)
             => /\ d.count_log[t] = c.count_log[t] + (IF down \/ up THEN 1 ELSE 0)
                /\ (t \in d.crossed_tracks) <=> (down \/ up)
                /\ (down /\ d.last_count.track = t) => d.last_count.dir = "down"
                /\ (up /\ d.last_count.track = t) => d.last_count.dir = "up"]_vars

\* an update counted a downward crossing of a track that arrived exactly on
\* the line row, and another track of the same counter rests on the line
\* row uncounted
C11_Witness ==
    /\ lastOp.name = "update"
    /\ LET c == line_counters[lastOp.src]
       IN  /\ c.last_count.dir = "down"
           /\ c.track_positions[c.last_count.track] = c.line_y
           /\ \E u \in Tracks \ c.crossed_tracks : c.track_positions[u] = c.line_y

(***************************************************************************)
(* Further claims about the store and the sync engine.                     *)
(***************************************************************************)

\* C12: a sync pass marks at most the batch size of events; a pass whose
\* uploads and commit all succeed marks its whole batch, which has the batch
\* size when that many events were unsynced; a pass whose first upload fails
\* marks nothing; and every event a pass does not mark stays in the store
\* unsynced, so that after a full pass and a pass failing at once exactly the
\* batch-size oldest events are synced and the rest wait for the next pass.
C12_PassMarksAtMostOneBatch ==
    [][\A t \in Syncers :
         (lastOp'.name = "sync_pass" /\ lastOp'.thread = t /\ sync[t].pc = "mark")
         => LET batch == sync[t].batch
                batch_ids == Ids(SeqRange(batch))
                marked == lastOp'.marked
            IN  /\ Cardinality(marked) <= SyncBatchLimit
                /\ Len(batch) = Min2(SyncBatchLimit, Cardinality(sync[t].start))
                /\ (sync[t].synced_ids = batch_ids /\ rows' # rows)
                      => marked = batch_ids
                /\ batch[1].id \notin sync[t].synced_ids
                      => (marked = {} /\ rows' = rows)
                /\ \A r \in Unsynced(rows) :
                      r.id \notin marked => r \in Unsynced(rows')]_vars

\* after a pass whose first upload failed, exactly one batch of events is
\* marked synced, none of them newer than an unsynced one, and more than a
\* batch has been stored
C12_Witness ==
    /\ lastOp.name = "sync_pass"
    /\ lastOp.start # {}
    /\ lastOp.uploaded = {}
    /\ Cardinality(rows \ Unsynced(rows)) = SyncBatchLimit
    /\ Unsynced(rows) = lastOp.start
    /\ \A a \in rows \ Unsynced(rows), b \in Unsynced(rows) : a.ts <= b.ts

(***************************************************************************)
(* Claims about the plate de-duplication.                                  *)
(***************************************************************************)

\* C13: a plate detected for a camera less than 5 seconds (so: 3 seconds)
\* after it was persisted for that camera is not persisted again; a plate
\* whose last save for that camera lies 5 seconds or more, and less than a
\* day, back (so: 40 seconds) is handed to the store again and, the store
\* accepting it, persisted as a new row. Only the camera's own entries count: what other
\* cameras persisted suppresses nothing.
C13_PlateDedupPerCamera ==
    [][lastOp'.name = "plate" =>
         LET cam_id == lastOp'.cam
             plate_num == lastOp'.plate
             earlier == {r \in plate_rows :
                           r.cam = cam_id /\ r.plate_number = NormalisePlate(plate_num)}
         IN  /\ (\E r \in earlier : wall - r.ts < PlateWindow)
                   => plate_rows' = plate_rows
             /\ (\A e \in PlateEntries(cam_id) :
                    e[1] = plate_num =>
                       (wall - e[2] >= PlateWindow /\ wall - e[2] < SecondsPerDay))
                   => /\ lastOp'.attempted
                      /\ lastOp'.stored =>
                            \E r \in plate_rows' \ plate_rows :
                               /\ r.cam = cam_id
                               /\ r.plate_number = NormalisePlate(plate_num)
                               /\ r.ts = wall]_vars

\* a plate was held back for a camera that persisted it 3 seconds before,
\* while another camera persisted the same plate in this very second
C13_Witness ==
    /\ lastOp.name = "plate"
    /\ ~lastOp.attempted
    /\ \E r \in plate_rows :
          /\ r.cam = lastOp.cam
          /\ r.plate_number = lastOp.plate
          /\ wall - r.ts = 3
    /\ \E r \in plate_rows :
          /\ r.cam # lastOp.cam
          /\ r.plate_number = lastOp.plate
          /\ r.ts = wall

\* a plate was persisted a second time for a camera, 40 seconds after the
\* first
PlatePersistedAgain ==
    /\ lastOp.name = "plate"
    /\ lastOp.stored
    /\ \E r \in plate_rows :
          /\ r.cam = lastOp.cam
          /\ r.plate_number = lastOp.plate
          /\ wall - r.ts = 40

(***************************************************************************)
(* Further claims about the camera manager.                                *)
(***************************************************************************)

\* C14: the frame buffer of a source holds at most one unconsumed frame.
C14_SingleSlotBuffer ==
    \A c \in DOMAIN cameras : Len(cameras[c].frame_queue) <= 1

\* C15: remove_camera always returns: once it waits for the capture thread,
\* it completes, whatever the capture thread does or fails to do.
C15_RemoveCameraReturns == (rm.pc = "join") ~> (rm.pc = "idle")

\* remove_camera returned from a join that timed out, its capture thread
\* still inside a read or an open
C15_Witness ==
    /\ lastOp.name = "remove_camera"
    /\ lastOp.timed_out
    /\ rm.pc = "idle"
    /\ \E th \in StartedThreads :
          capt[th].cam = lastOp.cam /\ capt[th].pc \in {"read", "open"}

(***************************************************************************)
(* Claims about the sync flag.                                             *)
(***************************************************************************)

\* C16: every vehicle event and every plate event enters the store with its
\* sync flag false, and no step takes a stored event from synced back to
\* unsynced: a row that is synced and still stored after the step is synced
\* after it, and is otherwise the row it was.
C16_SyncFlagOneWay ==
    [][/\ \A b \in rows' : b.id \notin Ids(rows) => ~b.synced
       /\ \A b \in plate_rows' : b.id \notin Ids(plate_rows) => ~b.synced
       /\ \A a \in rows, b \in rows' :
             a.id = b.id => /\ a.synced => b.synced
                            /\ [b EXCEPT !.synced = a.synced] = a
       /\ \A a \in plate_rows, b \in plate_rows' :
             a.id = b.id => b = a]_vars

\* a sync pass has marked a vehicle event synced while another vehicle event
\* and a plate event are stored unsynced
C16_Witness ==
    /\ lastOp.name = "sync_pass"
    /\ lastOp.marked # {}
    /\ \E r \in rows : r.synced /\ r.id \in lastOp.marked
    /\ \E r \in rows : ~r.synced
    /\ \E r \in plate_rows : ~r.synced

(***************************************************************************)
(* Claims about the readers of the frame buffer.                           *)
(***************************************************************************)

\* C17: a consumer read never blocks: detection_loop is never inside a
\* frame_queue.get() on an empty queue, whatever the capture thread and the
\* other readers of the buffer do.
C17_ReadNeverBlocks == ~DetectionBlocked

\* C18: publishing a frame never blocks the capture thread: no capture
\* thread is inside frame_queue.put() on a full queue, whatever the readers
\* and the other threads publishing into the same buffer do.
C18_PublishNeverBlocks == ~PublishBlocked

\* C19: reads tolerate concurrent removal: get_frame of a source that is
\* being removed returns without raising, and detection_loop meets a removed
\* source without an exception ending its pass over the cameras.
C19_ReadsTolerateRemoval ==
    lastOp.name \in {"get_frame", "detection_lookup"} => ~lastOp.raised

(***************************************************************************)
(* Claims about a failed sync pass.                                        *)
(***************************************************************************)

\* C20: a sync pass returns to its caller with the lock released whatever
\* failed in it, and it drops nothing: every event of its batch that was not
\* uploaded is in the local store after the pass with its sync flag false,
\* and a pass starting then selects it again (or selects in its place only
\* events that are not newer, which happens among events of one timestamp).
C20_FailedPassKeepsEvents ==
    [][\A t \in Syncers :
         (lastOp'.name = "sync_pass" /\ lastOp'.thread = t /\ sync[t].pc = "mark")
         => /\ sync'[t] = IdleSync
            /\ sync_lock' = Free
            /\ \A r \in SeqRange(sync[t].batch) :
                  r.id \notin sync[t].synced_ids
                  => /\ r \in rows'
                     /\ ~r.synced
                     /\ \A q \in OrderedUnsynced(rows', SyncBatchLimit) :
                           \/ r \in SeqRange(q)
                           \/ \A x \in SeqRange(q) : x.ts <= r.ts]_vars

\* a pass ended after its second upload failed: one event was uploaded, and
\* the event that was not is stored unsynced
C20_Witness ==
    /\ lastOp.name = "sync_pass"
    /\ Cardinality(lastOp.uploaded) = 1
    /\ \E r \in rows : r \in lastOp.start /\ r.id \notin lastOp.uploaded /\ ~r.synced

(***************************************************************************)
(* Claims about a failed local write.                                      *)
(***************************************************************************)

\* C21: when the commit of the event fails in save_detection, the call
\* returns None, no event row and no summary increment are stored, the
\* detection is not counted in total_detections, and the loop is past it: it
\* goes on with the next detection of the frame (or ends the frame) without
\* handing the failed one to save_detection again.
C21_FailedWriteDropsEvent ==
    [][(lastOp'.name = "service_save" /\ lastOp'.outcome = "event_fails")
        => /\ lastOp'.detection_id = NoId
           /\ rows' = rows
           /\ daily_summaries' = daily_summaries
           /\ total_detections' = total_detections
           /\ total_detections' = Cardinality(rows')
           /\ svc'.pending = Tail(svc.pending)
           /\ svc'.pc = IF Tail(svc.pending) = << >> THEN "update" ELSE "save"]_vars

\* the write of the first detection of a frame failed after an earlier frame
\* was counted, and the second detection of the frame is next
C21_Witness ==
    /\ lastOp.name = "service_save"
    /\ lastOp.outcome = "event_fails"
    /\ svc.pc = "save"
    /\ Len(svc.pending) = 1
    /\ total_detections = 1
    /\ Cardinality(rows) = 1

(***************************************************************************)
(* Claims about the remote store.                                          *)
(***************************************************************************)

\* C22: uploads are idempotent by key: the remote store holds at most one
\* record under the key {camera_id}_{local_id} of an event, however often
\* the sync passes upload that event.
C22_OneRecordPerKey ==
    \A x, y \in remote : SameKey(x, y) => x = y

\* a pass has uploaded again, at a later time, an event that an earlier pass
\* had uploaded and failed to mark, and the remote store holds one record of
\* it, the later one
C22_Witness ==
    /\ lastOp.name = "sync_upload"
    /\ lastOp.reuploaded # {}
    /\ now > 0
    /\ \A i \in lastOp.reuploaded :
          /\ Cardinality({x \in remote : x.id = i}) = 1
          /\ \A x \in remote : x.id = i => (x.sync_time = now /\ x.ts < now)

(***************************************************************************)
(* Claims about the daily summaries.                                       *)
(***************************************************************************)

\* C23: the store holds at most one DailySummary row per camera and date,
\* however the update_daily_summary calls of concurrent threads interleave.
C23_OneSummaryPerCameraAndDate ==
    \A x, y \in daily_summaries : x.cam = y.cam => x = y

(***************************************************************************)
(* Claims about the sync worker.                                           *)
(***************************************************************************)

\* C24: under fairness of the sync worker, if from some time on no pass of
\* the worker fails (the remote store accepts every upload, the store every
\* commit), then every event persisted in the local store, vehicle event or
\* plate event, is eventually marked synced.
C24_EveryEventSynced ==
    (<>[](lastOp.name = "worker_pass" => ~lastOp.failed))
    => /\ \A i \in 1..MaxId :
             (\E r \in rows : r.id = i /\ ~r.synced)
             ~> ~(\E r \in rows : r.id = i /\ ~r.synced)
       /\ \A i \in 1..MaxPlateRows :
             (\E r \in plate_rows : r.id = i /\ ~r.synced)
             ~> ~(\E r \in plate_rows : r.id = i /\ ~r.synced)

\* the part of C24 that holds: under the same conditions every vehicle event
\* is eventually marked synced
VehicleEventsSynced ==
    (<>[](lastOp.name = "worker_pass" => ~lastOp.failed))
    => \A i \in 1..MaxId :
          (\E r \in rows : r.id = i /\ ~r.synced)
          ~> ~(\E r \in rows : r.id = i /\ ~r.synced)

\* C29: the sync worker waits longer before its next pass after a pass that
\* ended in an error (a failed upload, a failed commit or an exception) than
\* the interval it waits after a clean pass.
C29_LongerWaitAfterError ==
    (lastOp.name = "worker_pass" /\ lastOp.failed) => auto.interval > SyncInterval

(***************************************************************************)
(* Capture threads of a camera id over add_camera and remove_camera        *)
(***************************************************************************)
\* the capture threads that were started for camera_id and have not left
\* _capture_frames
RunningFor(camera_id) ==
    {th \in StartedThreads : capt[th].cam = camera_id /\ ~Ended(th)}

\* C25: at any time at most one capture thread is running for a camera id,
\* whatever add_camera and remove_camera calls were made, a re-add after a
\* removal whose join timed out included.
C25_OneCaptureThreadPerCamera ==
    \A camera_id \in Cams : Cardinality(RunningFor(camera_id)) <= 1

(***************************************************************************)
(* The retry bound of _capture_frames                                      *)
(***************************************************************************)
\* the thread's loop condition finds the retries exhausted: the entry is in
\* the map and still the thread's own, no stop was signalled
RetriesExhausted(th) ==
    /\ capt[th].pc = "loop"
    /\ capt[th].retry_count >= max_retries
    /\ capt[th].cam \in DOMAIN cameras
    /\ capt[th].cam \in DOMAIN threads
    /\ threads[capt[th].cam] = th
    /\ cameras[capt[th].cam].active

\* C26: a capture loop whose open or read attempts failed max_retries times
\* in a row (no published frame in between) makes no further attempt and
\* terminates at its next step; the failures never exceed the bound; and an
\* entry leaves the camera map only by remove_camera.
C26_BoundedRetriesThenExit ==
    /\ [](\A th \in ThreadIds :
            /\ capt[th].retry_count <= max_retries
            /\ capt[th].pc \in {"open", "read"} => capt[th].retry_count < max_retries)
    /\ [][/\ \A th \in ThreadIds :
                (RetriesExhausted(th) /\ capt'[th] # capt[th])
                => /\ capt'[th].pc = "exited"
                   /\ capt'[th].cam \in DOMAIN cameras'
           /\ \A camera_id \in DOMAIN cameras :
                camera_id \notin DOMAIN cameras' => lastOp'.name = "remove_camera"]_vars

\* a thread has given up after max_retries failures in a row, without a stop
\* signal, and the entry of its camera is still in the map
C26_Witness ==
    \E th \in ThreadIds :
        /\ capt[th].pc = "exited"
        /\ capt[th].retry_count = max_retries
        /\ capt[th].cam \in DOMAIN cameras
        /\ capt[th].cam \in DOMAIN threads
        /\ threads[capt[th].cam] = th
        /\ cameras[capt[th].cam].active
        /\ lastOp = [name |-> "capture_loop", thread |-> th]

\* C27: when a capture loop has given up after exhausting its retries, the
\* entry of its camera no longer reads active.
C27_GivenUpIsMarkedInactive ==
    \A th \in ThreadIds :
        (/\ capt[th].pc = "exited"
         /\ capt[th].retry_count >= max_retries
         /\ capt[th].cam \in DOMAIN cameras
         /\ capt[th].cam \in DOMAIN threads
         /\ threads[capt[th].cam] = th)
        => ~cameras[capt[th].cam].active

\* C28: read retries and reopen retries are separate: a loop that holds an
\* open handle on a source that was not stopped does not terminate; after too
\* many failed reads it releases the handle and goes back to the open step.
C28_FailedReadsReopen ==
    [][\A th \in ThreadIds :
          (/\ capt[th].pc = "loop"
           /\ capt[th].cap = "open"
           /\ capt[th].cam \in DOMAIN cameras
           /\ capt[th].cam \in DOMAIN threads
           /\ threads[capt[th].cam] = th
           /\ cameras[capt[th].cam].active
           /\ capt'[th] # capt[th])
          => /\ ~Ended(th)'
             /\ capt[th].retry_count >= max_retries
                => (capt'[th].pc = "open" /\ capt'[th].cap = "none")]_vars

\* C30: whenever a capture thread has ended, by a stop signal at any point of
\* its loop or after remove_camera erased the entry, the handle it opened has
\* been released.
C30_EndedThreadReleasedHandle ==
    \A th \in ThreadIds : Ended(th) => capt[th].cap # "open"

(***************************************************************************)
(* The counters of a LineCounter and its counted set                       *)
(***************************************************************************)
\* C40: in every reachable state of a LineCounter, the sum of its per-class
\* counters (get_counts) equals the number of track identities in
\* crossed_tracks.
C40_CountsMatchCountedSet ==
    \A s \in Sources :
        TotalCount(line_counters[s]) = Cardinality(line_counters[s].crossed_tracks)

\* an update counted a second track, of another class than the first
C40_Witness ==
    /\ lastOp.name = "update"
    /\ LET c == line_counters[lastOp.src]
       IN  /\ Cardinality(c.crossed_tracks) = 2
           /\ c.total_counts["Mobil"] = 1
           /\ c.total_counts["Bus"] = 1
           /\ c.last_count.track \in c.crossed_tracks

(***************************************************************************)
(* add_camera with an id that is registered                                *)
(***************************************************************************)
\* C39: add_camera with an id that is already in the map changes nothing:
\* the entry, its buffer and its capture thread are kept, and no capture
\* thread is started.
C39_AddRegisteredChangesNothing ==
    [][(lastOp'.name = "add_camera" /\ lastOp'.cam \in DOMAIN cameras)
       => UNCHANGED <<cameras, threads, capt>>]_vars

(***************************************************************************)
(* The publish step of the capture loops                                   *)
(***************************************************************************)
\* C31: in every capture loop, the publish of a newly captured frame stores
\* that frame as the newest of the buffer; when the buffer is full, the
\* oldest buffered frame is the one discarded, never the new one.
C31_PublishDropsOldest ==
    [][/\ (lastOp'.name = "capture_read" /\ frame_no' # frame_no)
          => LET camera_id == capt[lastOp'.thread].cam
                 q == cameras[camera_id].frame_queue
                 r == cameras'[camera_id].frame_queue
             IN  /\ r # << >>
                 /\ r[Len(r)] = frame_no'
                 /\ Len(q) >= QueueMaxSize => r = Append(Tail(q), frame_no')
       /\ (lastOp'.name = "service_capture" /\ lastOp'.frame # NoFrame)
          => LET q == frame_queue
                 r == frame_queue'
             IN  /\ r # << >>
                 /\ r[Len(r)] = lastOp'.frame
                 /\ Len(q) >= ServiceQueueMaxSize => r = Append(Tail(q), lastOp'.frame)
      ]_vars

(***************************************************************************)
(* The detection threads of the dashboard                                  *)
(***************************************************************************)
\* C32: at most one consumer loop is running at any time, for every sequence
\* of start_detection and stop_detection calls, a start right after a stop
\* included.
C32_OneConsumerLoop == Cardinality(RunningLoops) <= 1

C35_ForceSyncTerminates == (fs.pc # "idle") ~> (fs.pc = "idle")

\* C34: head-of-line blocking of sync_to_firebase. An unsynced event stays
\* in the store, unsynced, through every step except a pass that uploaded
\* it; and a pass in which the upload of an event of its start set did not
\* succeed marks no event with a later timestamp. An event whose upload
\* never succeeds therefore is in the start set of every later pass, and
\* none of them marks an event newer than it.
C34_HeadOfLineBlocks ==
    [][/\ \A e \in Unsynced(rows) :
             e \in Unsynced(rows')
             \/ (lastOp'.name = "sync_pass" /\ e.id \in lastOp'.uploaded)
       /\ lastOp'.name = "sync_pass" =>
             \A e \in lastOp'.start : e.id \notin lastOp'.uploaded =>
                 \A f \in Unsynced(rows) :
                     f.ts > e.ts => f \in Unsynced(rows')]_vars

\* a pass has ended in which the upload of the oldest unsynced event failed
\* while a newer event was waiting, and both are still unsynced
C34_Witness ==
    /\ lastOp.name = "sync_pass"
    /\ lastOp.uploaded = {}
    /\ \E e, f \in lastOp.start :
          /\ e.ts < f.ts
          /\ \A g \in lastOp.start : e.ts <= g.ts
          /\ e \in Unsynced(rows) /\ f \in Unsynced(rows)

\* C37: in the local store every event marked synced has a timestamp no later
\* than every unsynced event, with save_detection calls running side by side
\* (each takes its timestamp before it commits) and sync passes.
C37_SyncedNoLaterThanUnsynced ==
    \A r, u \in rows : (r.synced /\ ~u.synced) => r.ts <= u.ts

\* C36: no event is lost across the local/remote boundary: an event that is
\* unsynced in the local store or present in the remote store (under its
\* camera, id and timestamp) is so after every step; a row is marked synced
\* or deleted only with its event in the remote store, and stays there.
C36_NoEventLost ==
    [][LET Kept(R, rem) ==
               {<<r.cam, r.id, r.ts>> : r \in Unsynced(R)}
               \cup {<<x.cam, x.id, x.ts>> : x \in rem}
       IN  Kept(rows, remote) \subseteq Kept(rows', remote')]_vars

\* C38: plate suppression never outlasts the dedup window: a plate detected
\* on a camera 5 seconds or more after the last time it was persisted for
\* that camera is handed to save_plate_detection again, whatever the time
\* elapsed, gaps of more than a day included.
C38_SuppressionEndsWithWindow ==
    lastOp.name = "plate" =>
        LET persisted == {r \in plate_rows :
                            /\ r.cam = lastOp.cam
                            /\ r.plate_number = NormalisePlate(lastOp.plate)}
        IN  (/\ persisted # {}
             /\ \A r \in persisted : wall - r.ts >= PlateWindow)
            => lastOp.attempted

====
